---------------------------- MODULE Spec2Model ----------------------------
(***************************************************************************)
(* A model of fzf-open (src/fzf-open.go): the path cache and its           *)
(* background pre-warm sweep, the MIME resolver, the one-shot shell         *)
(* detector, the application dispatch of openFileWithConfiguredApp, the     *)
(* launcher and the start-up part of getPathViaFZF / main.                  *)
(*                                                                         *)
(* Strings of the program are TLA+ strings; the string functions the code  *)
(* uses (strings.HasPrefix, strings.ToLower, strings.Fields, filepath.Ext, *)
(* filepath.Base, the trimming loops of getMimeType) are computed          *)
(* character by character as the library computes them.                    *)
(***************************************************************************)
EXTENDS Integers, Sequences, FiniteSets, TLC

VARIABLES
    env,            \* the machine the process runs on (never changes in a run)
    pc,             \* location of the main goroutine
    pathCache,      \* var pathCache map[string]string
    mimeCache,      \* var mimeCache map[string]string
    clp,            \* per goroutine: its activation of cachedLookPath
    gmt,            \* per goroutine: its activation of getMimeType
    orphans,        \* search goroutines whose cachedLookPath has timed out
    pw,             \* the pre-warm sweep of init()
    callLog,        \* history: the calls the driver made, with their outcome
    cacheWrites,    \* history: how often each key of each map was assigned
    cs,             \* the critical sections open on pathCacheLock, mimeCacheLock
    peer,           \* a second instance of the program: its steps on /tmp/fzf-open
    ShellToUse,     \* defaultConfig.ShellToUse, as the two words of a Go string
    shellOnce,      \* var shellDetectOnce sync.Once
    det,            \* the activation of detectUserShell
    bg,             \* the goroutine init() starts for the shell detection
    detectRuns,     \* history: how often the body of detectUserShell began
    onceReturns,    \* history: how many shellDetectOnce.Do calls returned
    warned,         \* history: the fallback warning was written to stderr
    panicked,       \* the process died of a panic or a fatal signal
    cfg,            \* the *Config of main
    cmd,            \* the exec.Cmd getPathViaFZF builds for the picker
    userHomeDir,    \* var userHomeDir string
    gp,             \* the locals and results of getPathViaFZF and main
    fallbackValid,  \* the channel and goroutine checking the fallback dir
    tmpFile,        \* the file /tmp/fzf-open
    pickerRuns,     \* history: how often cmd.Run() was called for the picker
    stderr,         \* what main and getPathViaFZF wrote to standard error
    exitCode,       \* the exit status of the process, -1 while it runs
    lap,            \* per goroutine: its activation of launchApp
    procs,          \* the child processes started so far
    launchLog,      \* history: the launchApp calls that have returned
    op              \* the activation of openFileWithConfiguredApp

cacheVars == <<pathCache, mimeCache, clp, gmt, orphans, pw, callLog>>

shellVars ==
    <<ShellToUse, shellOnce, det, bg, detectRuns, onceReturns, warned, panicked>>

runVars ==
    <<userHomeDir, gp, fallbackValid, tmpFile, pickerRuns, stderr, exitCode>>

mainVars == <<cfg, cmd, runVars>>

openVars == <<lap, procs, launchLog, op>>

vars == <<env, pc, cacheWrites, cs, peer, cacheVars, shellVars, mainVars, openVars>>

-----------------------------------------------------------------------------
(* Bounds of the model.                                                    *)

\* how many calls the driver of the two caches makes in one run
MaxCalls == 2

-----------------------------------------------------------------------------
(* String functions.                                                       *)

Char(s, i) == SubSeq(s, i, i)

HasPrefix(s, prefix) ==
    Len(s) >= Len(prefix) /\ SubSeq(s, 1, Len(prefix)) = prefix

UpperLetters == "ABCDEFGHIJKLMNOPQRSTUVWXYZ"

LowerLetters == "abcdefghijklmnopqrstuvwxyz"

LowerChar(c) ==
    IF \E i \in 1..26 : Char(UpperLetters, i) = c
    THEN Char(LowerLetters, CHOOSE i \in 1..26 : Char(UpperLetters, i) = c)
    ELSE c

RECURSIVE ToLower(_)
ToLower(s) ==
    IF s = "" THEN "" ELSE LowerChar(Char(s, 1)) \o ToLower(SubSeq(s, 2, Len(s)))

\* filepath.Ext: the suffix beginning at the final dot of the final element
RECURSIVE ExtFrom(_, _)
ExtFrom(path, i) ==
    IF i < 1 \/ Char(path, i) = "/" THEN ""
    ELSE IF Char(path, i) = "." THEN SubSeq(path, i, Len(path))
    ELSE ExtFrom(path, i - 1)

Ext(path) == ExtFrom(path, Len(path))

\* filepath.Base, for the cleaned absolute paths the program handles
RECURSIVE BaseFrom(_, _)
BaseFrom(path, i) ==
    IF i < 1 THEN path
    ELSE IF Char(path, i) = "/" THEN SubSeq(path, i + 1, Len(path))
    ELSE BaseFrom(path, i - 1)

Base(path) ==
    IF path = "" THEN "."
    ELSE IF path = "/" THEN "/"
    ELSE BaseFrom(path, Len(path))

IsAbs(path) == HasPrefix(path, "/")

\* the trimming loops at the end of getMimeType
RECURSIVE TrimEnd(_)
TrimEnd(output) ==
    IF Len(output) > 0 /\ Char(output, Len(output)) \in {"\n", "\r", " ", "\t"}
    THEN TrimEnd(SubSeq(output, 1, Len(output) - 1))
    ELSE output

RECURSIVE TrimStart(_)
TrimStart(output) ==
    IF Len(output) > 0 /\ Char(output, 1) \in {" ", "\t"}
    THEN TrimStart(SubSeq(output, 2, Len(output)))
    ELSE output

TrimOutput(output) == TrimStart(TrimEnd(output))

-----------------------------------------------------------------------------
(* Constants of the program.                                               *)

mimeTextPrefix == "text/"
mimeApplicationScript == "application/x-shellscript"
mimeApplicationJS == "application/javascript"
mimeApplicationJSON == "application/json"
mimeApplicationXML == "application/xml"
mimeInodeEmpty == "inode/x-empty"
mimeImagePrefix == "image/"
mimeVideoPrefix == "video/"
mimeAudioPrefix == "audio/"
mimePDF == "application/pdf"
mimeWordDocx == "application/vnd.openxmlformats-officedocument.wordprocessingml.document"
mimeWordDoc == "application/msword"
mimeODT == "application/vnd.oasis.opendocument.text"
mimeODS == "application/vnd.oasis.opendocument.spreadsheet"
mimeExcel == "application/vnd.ms-excel"
mimeExcelX == "application/vnd.openxmlformats-officedocument.spreadsheetml.sheet"

commonCommands ==
    <<"xdg-mime", "sh", "bash", "zsh", "fish", "fzf", "zeditor", "zathura",
      "eog", "vlc", "wps", "thorium-browser", "xdg-open">>

-----------------------------------------------------------------------------
(* The machine: what exec.LookPath, os.Stat and xdg-mime answer.           *)

\* exec.LookPath(name) for a relative name: the path, or "" for an error
LookPath(name) ==
    IF name \in env.installed THEN "/usr/bin/" \o name ELSE ""

\* os.Stat(path) succeeds
StatOk(path) == path \in env.existing

\* the goroutines that call into the caches
Threads == {"main", "task"}

\* the process has not exited: os.Exit ends every goroutine with main
Running == pc # "exited"

-----------------------------------------------------------------------------
(* cachedLookPath, one activation per calling goroutine.                   *)

CLPIdle ==
    [pc |-> "idle", name |-> "", path |-> "", err |-> "",
     resultChan |-> <<>>, errChan |-> <<>>, worker |-> "none",
     searched |-> FALSE]

CLPCall(name) == [CLPIdle EXCEPT !.pc = "read", !.name = name]

CachePut(cache, key, value) ==
    [k \in DOMAIN cache \cup {key} |-> IF k = key THEN value ELSE cache[k]]

\* no map has been assigned to
NoWrites == [k \in {} |-> 0]

\* one more assignment map[key] = ... has been executed
Assigned(map, key) ==
    cacheWrites' =
        [k \in DOMAIN cacheWrites \cup {<<map, key>>} |->
            IF k # <<map, key>> THEN cacheWrites[k]
            ELSE IF k \in DOMAIN cacheWrites THEN cacheWrites[k] + 1 ELSE 1]

\* RLock; path, ok := pathCache[name]; RUnlock; if ok return
CLPRead(t) ==
    /\ Running
    /\ clp[t].pc = "read"
    /\ IF clp[t].name \in DOMAIN pathCache
       THEN clp' = [clp EXCEPT ![t].pc = "ret", ![t].path = pathCache[clp[t].name]]
       ELSE clp' = [clp EXCEPT ![t].pc = "miss"]
    /\ UNCHANGED <<env, peer, cs, cacheWrites, pc, shellVars, mainVars, openVars, pathCache,
                   mimeCache, gmt, orphans, pw, callLog>>

IsBuiltin(name) == name \in {"cd", "echo", "exit"}

\* a shell built-in resolves to itself, without a search
CLPBuiltin(t) ==
    /\ Running
    /\ clp[t].pc = "miss"
    /\ IsBuiltin(clp[t].name)
    /\ Assigned("path", clp[t].name)
    /\ pathCache' = CachePut(pathCache, clp[t].name, clp[t].name)
    /\ clp' = [clp EXCEPT ![t].pc = "ret", ![t].path = clp[t].name]
    /\ UNCHANGED <<env, peer, cs, pc, shellVars, mainVars, openVars, mimeCache, gmt,
                   orphans, pw, callLog>>

\* an absolute path is verified by os.Stat
CLPAbs(t) ==
    /\ Running
    /\ clp[t].pc = "miss"
    /\ ~IsBuiltin(clp[t].name)
    /\ IsAbs(clp[t].name)
    /\ IF StatOk(clp[t].name)
       THEN /\ pathCache' = CachePut(pathCache, clp[t].name, clp[t].name)
            /\ Assigned("path", clp[t].name)
            /\ clp' = [clp EXCEPT ![t].pc = "ret", ![t].path = clp[t].name,
                                  ![t].searched = TRUE]
       ELSE /\ pathCache' = pathCache
            /\ cacheWrites' = cacheWrites
            /\ clp' = [clp EXCEPT ![t].pc = "ret", ![t].err = "notfound",
                                  ![t].searched = TRUE]
    /\ UNCHANGED <<env, peer, cs, pc, shellVars, mainVars, openVars, mimeCache, gmt,
                   orphans, pw, callLog>>

\* go func() { exec.LookPath(name) ... }()
CLPSpawn(t) ==
    /\ Running
    /\ clp[t].pc = "miss"
    /\ ~IsBuiltin(clp[t].name)
    /\ ~IsAbs(clp[t].name)
    /\ clp' = [clp EXCEPT ![t].pc = "select", ![t].worker = "running",
                          ![t].searched = TRUE]
    /\ UNCHANGED <<env, peer, cs, cacheWrites, pc, shellVars, mainVars, openVars, pathCache,
                   mimeCache, gmt, orphans, pw, callLog>>

\* the search goroutine: LookPath, then a send on errChan or resultChan
\* (both buffered with capacity 1, so the send never blocks)
CLPWorker(t) ==
    /\ Running
    /\ clp[t].worker = "running"
    /\ IF LookPath(clp[t].name) = ""
       THEN clp' = [clp EXCEPT ![t].worker = "done",
                               ![t].errChan = Append(@, "notfound")]
       ELSE clp' = [clp EXCEPT ![t].worker = "done",
                               ![t].resultChan = Append(@, LookPath(clp[t].name))]
    /\ UNCHANGED <<env, peer, cs, cacheWrites, pc, shellVars, mainVars, openVars, pathCache,
                   mimeCache, gmt, orphans, pw, callLog>>

\* the receive without the store into the cache
CLPRecvResult_NoStore(t) ==
    /\ Running
    /\ clp[t].pc = "select"
    /\ clp[t].resultChan # <<>>
    /\ clp' = [clp EXCEPT ![t].pc = "ret", ![t].path = Head(clp[t].resultChan),
                          ![t].resultChan = Tail(@)]
    /\ UNCHANGED <<env, peer, cs, cacheWrites, pc, shellVars, mainVars, openVars, pathCache,
                   mimeCache, gmt, orphans, pw, callLog>>

\* case path := <-resultChan
CLPRecvResult(t) ==
    /\ Running
    /\ clp[t].pc = "select"
    /\ clp[t].resultChan # <<>>
    /\ Assigned("path", clp[t].name)
    /\ pathCache' = CachePut(pathCache, clp[t].name, Head(clp[t].resultChan))
    /\ clp' = [clp EXCEPT ![t].pc = "ret", ![t].path = Head(clp[t].resultChan),
                          ![t].resultChan = Tail(@)]
    /\ UNCHANGED <<env, peer, cs, pc, shellVars, mainVars, openVars, mimeCache, gmt,
                   orphans, pw, callLog>>

\* case err := <-errChan
CLPRecvErr(t) ==
    /\ Running
    /\ clp[t].pc = "select"
    /\ clp[t].errChan # <<>>
    /\ clp' = [clp EXCEPT ![t].pc = "ret", ![t].err = Head(clp[t].errChan),
                          ![t].errChan = Tail(@)]
    /\ UNCHANGED <<env, peer, cs, cacheWrites, pc, shellVars, mainVars, openVars, pathCache,
                   mimeCache, gmt, orphans, pw, callLog>>

\* the timeout case caching the failure: pathCache[name] = ""
CLPTimeout_CachesMiss(t) ==
    /\ Running
    /\ clp[t].pc = "select"
    /\ clp' = [clp EXCEPT ![t].pc = "ret", ![t].err = "timeout",
                          ![t].worker = "none",
                          ![t].resultChan = <<>>, ![t].errChan = <<>>]
    /\ orphans' = IF clp[t].worker = "running" THEN orphans + 1 ELSE orphans
    /\ pathCache' = CachePut(pathCache, clp[t].name, "")
    /\ UNCHANGED <<env, peer, cs, cacheWrites, pc, shellVars, mainVars, openVars,
                   mimeCache, gmt, pw, callLog>>

\* the timeout case with delete(pathCache, name) added
CLPTimeout_Evicts(t) ==
    /\ Running
    /\ clp[t].pc = "select"
    /\ clp' = [clp EXCEPT ![t].pc = "ret", ![t].err = "timeout",
                          ![t].worker = "none",
                          ![t].resultChan = <<>>, ![t].errChan = <<>>]
    /\ orphans' = IF clp[t].worker = "running" THEN orphans + 1 ELSE orphans
    /\ pathCache' = [k \in DOMAIN pathCache \ {clp[t].name} |-> pathCache[k]]
    /\ UNCHANGED <<env, peer, cs, cacheWrites, pc, shellVars, mainVars, openVars,
                   mimeCache, gmt, pw, callLog>>

\* case <-time.After(100 * time.Millisecond); the search goroutine is left
\* running with channels nobody reads any more
CLPTimeout(t) ==
    /\ Running
    /\ clp[t].pc = "select"
    /\ clp' = [clp EXCEPT ![t].pc = "ret", ![t].err = "timeout",
                          ![t].worker = "none",
                          ![t].resultChan = <<>>, ![t].errChan = <<>>]
    /\ orphans' = IF clp[t].worker = "running" THEN orphans + 1 ELSE orphans
    /\ UNCHANGED <<env, peer, cs, cacheWrites, pc, shellVars, mainVars, openVars, pathCache,
                   mimeCache, gmt, pw, callLog>>

\* an abandoned search goroutine finishes: its send goes into a buffered
\* channel that is garbage
OrphanFinish ==
    /\ Running
    /\ orphans > 0
    /\ orphans' = orphans - 1
    /\ UNCHANGED <<env, peer, cs, cacheWrites, pc, shellVars, mainVars, openVars, pathCache,
                   mimeCache, clp, gmt, pw, callLog>>

cachedLookPath(t) ==
    \/ CLPRead(t)
    \/ CLPBuiltin(t)
    \/ CLPAbs(t)
    \/ CLPSpawn(t)
    \/ CLPWorker(t)
    \/ CLPRecvResult(t)
    \/ CLPRecvErr(t)
    \/ CLPTimeout(t)

-----------------------------------------------------------------------------
(* The pre-warm sweep started by init().                                   *)

\* the sweep is modelled for the first two of the thirteen commonCommands
PrewarmCommands == {commonCommands[1], commonCommands[2]}

PWStart ==
    [workers |-> [c \in PrewarmCommands |-> "running"],
     resultChan |-> <<>>, closed |-> FALSE, collector |-> "range"]

\* the sweep as it is once every goroutine of it has ended
PWOver ==
    [workers |-> [c \in PrewarmCommands |-> "done"],
     resultChan |-> <<>>, closed |-> TRUE, collector |-> "done"]

\* go func(command string) { defer wg.Done(); LookPath; resultChan <- ... }
PrewarmLookup(c) ==
    /\ Running
    /\ pw.workers[c] = "running"
    /\ pw' = [pw EXCEPT
                !.workers[c] = "done",
                !.resultChan = IF LookPath(c) = "" THEN @
                               ELSE Append(@, [cmd |-> c, path |-> LookPath(c)])]
    /\ UNCHANGED <<env, peer, cs, cacheWrites, pc, shellVars, mainVars, openVars, pathCache,
                   mimeCache, clp, gmt, orphans, callLog>>

\* go func() { wg.Wait(); close(resultChan) }()
PrewarmClose ==
    /\ Running
    /\ ~pw.closed
    /\ \A c \in PrewarmCommands : pw.workers[c] = "done"
    /\ pw' = [pw EXCEPT !.closed = TRUE]
    /\ UNCHANGED <<env, peer, cs, cacheWrites, pc, shellVars, mainVars, openVars, pathCache,
                   mimeCache, clp, gmt, orphans, callLog>>

\* the collector with pathCache[result.cmd] = result.cmd
PrewarmCollect_StoresName ==
    /\ Running
    /\ pw.collector = "range"
    /\ pw.resultChan # <<>>
    /\ Assigned("path", Head(pw.resultChan).cmd)
    /\ pathCache' = CachePut(pathCache, Head(pw.resultChan).cmd,
                             Head(pw.resultChan).cmd)
    /\ pw' = [pw EXCEPT !.resultChan = Tail(@)]
    /\ UNCHANGED <<env, peer, cs, pc, shellVars, mainVars, openVars, mimeCache, clp,
                   gmt, orphans, callLog>>

\* for result := range resultChan { Lock; pathCache[cmd] = path; Unlock }
PrewarmCollect ==
    /\ Running
    /\ pw.collector = "range"
    /\ pw.resultChan # <<>>
    /\ Assigned("path", Head(pw.resultChan).cmd)
    /\ pathCache' = CachePut(pathCache, Head(pw.resultChan).cmd,
                             Head(pw.resultChan).path)
    /\ pw' = [pw EXCEPT !.resultChan = Tail(@)]
    /\ UNCHANGED <<env, peer, cs, pc, shellVars, mainVars, openVars, mimeCache, clp,
                   gmt, orphans, callLog>>

\* the range loop that ends as soon as the channel is empty, closed or not
PrewarmEnd_BeforeClose ==
    /\ Running
    /\ pw.collector = "range"
    /\ pw.resultChan = <<>>
    /\ pw' = [pw EXCEPT !.collector = "done"]
    /\ UNCHANGED <<env, peer, cs, cacheWrites, pc, shellVars, mainVars, openVars, pathCache,
                   mimeCache, clp, gmt, orphans, callLog>>

\* the range loop ends on the closed, drained channel
PrewarmEnd ==
    /\ Running
    /\ pw.collector = "range"
    /\ pw.resultChan = <<>>
    /\ pw.closed
    /\ pw' = [pw EXCEPT !.collector = "done"]
    /\ UNCHANGED <<env, peer, cs, cacheWrites, pc, shellVars, mainVars, openVars, pathCache,
                   mimeCache, clp, gmt, orphans, callLog>>

Prewarm ==
    \/ \E c \in PrewarmCommands : PrewarmLookup(c)
    \/ PrewarmClose
    \/ PrewarmCollect
    \/ PrewarmEnd

-----------------------------------------------------------------------------
(* getMimeType, one activation per calling goroutine.                      *)

GMIdle ==
    [pc |-> "idle", path |-> "", mime |-> "", cached |-> FALSE,
     ranTool |-> FALSE]

GMCall(path) == [GMIdle EXCEPT !.pc = "read", !.path = path]

\* the extension switch of getMimeType: the MIME string it synthesizes, or
\* "none" when no case applies
ShortcutMime(lowerExt) ==
    IF lowerExt \in {".txt", ".md", ".log", ".conf", ".cfg"}
        THEN mimeTextPrefix \o "plain"
    ELSE IF lowerExt = ".json" THEN mimeApplicationJSON
    ELSE IF lowerExt = ".xml" THEN mimeApplicationXML
    ELSE IF lowerExt = ".pdf" THEN mimePDF
    ELSE IF lowerExt \in {".png", ".jpg", ".jpeg", ".gif", ".bmp", ".webp", ".svg"}
        THEN mimeImagePrefix \o SubSeq(lowerExt, 2, Len(lowerExt))
    ELSE IF lowerExt \in {".mp4", ".avi", ".mkv", ".mov"}
        THEN mimeVideoPrefix \o SubSeq(lowerExt, 2, Len(lowerExt))
    ELSE "none"

\* RLock; cachedMime, ok := mimeCache[filePath]; RUnlock; if ok return
GMRead(t) ==
    /\ Running
    /\ gmt[t].pc = "read"
    /\ IF gmt[t].path \in DOMAIN mimeCache
       THEN gmt' = [gmt EXCEPT ![t].pc = "ret", ![t].cached = TRUE,
                               ![t].mime = mimeCache[gmt[t].path]]
       ELSE gmt' = [gmt EXCEPT ![t].pc = "ext"]
    /\ UNCHANGED <<env, peer, cs, cacheWrites, pc, shellVars, mainVars, openVars, pathCache,
                   mimeCache, clp, orphans, pw, callLog>>

\* the extension shortcut: synthesize, cache, return
GMShortcut(t) ==
    /\ Running
    /\ gmt[t].pc = "ext"
    /\ Ext(gmt[t].path) # ""
    /\ ShortcutMime(ToLower(Ext(gmt[t].path))) # "none"
    /\ Assigned("mime", gmt[t].path)
    /\ mimeCache' = CachePut(mimeCache, gmt[t].path,
                             ShortcutMime(ToLower(Ext(gmt[t].path))))
    /\ gmt' = [gmt EXCEPT ![t].pc = "ret", ![t].cached = TRUE,
                          ![t].mime = ShortcutMime(ToLower(Ext(gmt[t].path)))]
    /\ UNCHANGED <<env, peer, cs, pc, shellVars, mainVars, openVars, pathCache, clp,
                   orphans, pw, callLog>>

\* no shortcut: xdgMimePath, err := cachedLookPath("xdg-mime")
GMLookup(t) ==
    /\ Running
    /\ gmt[t].pc = "ext"
    /\ \/ Ext(gmt[t].path) = ""
       \/ ShortcutMime(ToLower(Ext(gmt[t].path))) = "none"
    /\ gmt' = [gmt EXCEPT ![t].pc = "lookup"]
    /\ clp' = [clp EXCEPT ![t] = CLPCall("xdg-mime")]
    /\ UNCHANGED <<env, peer, cs, cacheWrites, pc, shellVars, mainVars, openVars, pathCache,
                   mimeCache, orphans, pw, callLog>>

\* cachedLookPath has returned: if err != nil { return "" }
GMResolved(t) ==
    /\ Running
    /\ gmt[t].pc = "lookup"
    /\ clp[t].pc = "ret"
    /\ gmt' = [gmt EXCEPT ![t].pc = IF clp[t].err # "" THEN "ret" ELSE "run"]
    /\ clp' = [clp EXCEPT ![t] = CLPIdle]
    /\ UNCHANGED <<env, peer, cs, cacheWrites, pc, shellVars, mainVars, openVars, pathCache,
                   mimeCache, orphans, pw, callLog>>

\* the successful run without the store into the cache
GMRunOk_NoStore(t) ==
    /\ Running
    /\ gmt[t].pc = "run"
    /\ gmt' = [gmt EXCEPT ![t].pc = "ret", ![t].ranTool = TRUE,
                          ![t].cached = TRUE,
                          ![t].mime = TrimOutput(env.mimeOut[gmt[t].path])]
    /\ UNCHANGED <<env, peer, cs, cacheWrites, pc, shellVars, mainVars, openVars, pathCache,
                   mimeCache, clp, orphans, pw, callLog>>

\* cmd.Output() succeeds: trim the output, cache it, return it
GMRunOk(t) ==
    /\ Running
    /\ gmt[t].pc = "run"
    /\ Assigned("mime", gmt[t].path)
    /\ mimeCache' = CachePut(mimeCache, gmt[t].path,
                             TrimOutput(env.mimeOut[gmt[t].path]))
    /\ gmt' = [gmt EXCEPT ![t].pc = "ret", ![t].ranTool = TRUE,
                          ![t].cached = TRUE,
                          ![t].mime = TrimOutput(env.mimeOut[gmt[t].path])]
    /\ UNCHANGED <<env, peer, cs, pc, shellVars, mainVars, openVars, pathCache, clp,
                   orphans, pw, callLog>>

\* the failed run caching the empty answer: mimeCache[filePath] = ""
GMRunFail_CachesEmpty(t) ==
    /\ Running
    /\ gmt[t].pc = "run"
    /\ gmt' = [gmt EXCEPT ![t].pc = "ret", ![t].ranTool = TRUE]
    /\ mimeCache' = CachePut(mimeCache, gmt[t].path, "")
    /\ UNCHANGED <<env, peer, cs, cacheWrites, pc, shellVars, mainVars, openVars, pathCache,
                   clp, orphans, pw, callLog>>

\* cmd.Output() fails (the 500 ms deadline, a nonzero exit): return ""
GMRunFail(t) ==
    /\ Running
    /\ gmt[t].pc = "run"
    /\ gmt' = [gmt EXCEPT ![t].pc = "ret", ![t].ranTool = TRUE]
    /\ UNCHANGED <<env, peer, cs, cacheWrites, pc, shellVars, mainVars, openVars, pathCache,
                   mimeCache, clp, orphans, pw, callLog>>

getMimeType(t) ==
    \/ GMRead(t)
    \/ GMShortcut(t)
    \/ GMLookup(t)
    \/ GMResolved(t)
    \/ GMRunOk(t)
    \/ GMRunFail(t)


-----------------------------------------------------------------------------
(* The shell detector: detectUserShell under shellDetectOnce.              *)

validShells == {"bash", "zsh", "fish", "dash", "sh", "ksh", "csh", "tcsh"}

\* how many of the five candidates of detectUserShell the model races
MaxCandidates == 3

possibleShells == SubSeq(<<"zsh", "bash", "fish", "dash", "sh">>, 1, MaxCandidates)

Candidates == {possibleShells[i] : i \in 1..Len(possibleShells)}

fishFlags == <<"-c">>
shFlags == <<"-ic">>
defaultShellFlags == <<"-c">>

getShellInteractiveFlag(shellName) ==
    IF shellName = "fish" THEN fishFlags
    ELSE IF shellName \in {"zsh", "bash", "sh", "dash", "ksh"} THEN shFlags
    ELSE defaultShellFlags

\* A Go string is a length word and a data word, stored one after the other.
\* ShellToUse is written by the detecting goroutine and read by main without
\* synchronisation, so a read between the two stores sees the new length
\* with the old (nil) data word.
NilString == [len |-> 0, data |-> ""]

IsTorn(w) == w.len > 0 /\ w.data = ""

StringValue(w) == IF w.len = 0 THEN "" ELSE w.data

DetIdle ==
    [pc |-> "idle", owner |-> "", chosen |-> "", timedOut |-> FALSE,
     resultChan |-> <<>>, doneCloses |-> 0,
     cand |-> [sh \in Candidates |-> "unstarted"]]

\* a Do that checks only whether f has returned
OnceMayRun_Unguarded == shellOnce # "done"

\* sync.Once: Do runs f only for the first caller ...
OnceMayRun == shellOnce = "fresh"

\* a Do that lets a caller in while f has not returned
OnceWaitOver_NoWait == shellOnce # "fresh"

\* ... and every other Do returns only once f has returned
OnceWaitOver == shellOnce = "done"

\* the caller of Do enters detectUserShell
DetectBegin(owner) ==
    /\ shellOnce' = "running"
    /\ det' = [DetIdle EXCEPT !.pc = "env", !.owner = owner]
    /\ detectRuns' = detectRuns + 1

\* detectUserShell returns into Do, which marks the Once done
DetectEnd(owner) ==
    /\ det.pc = "ret"
    /\ det.owner = owner
    /\ shellOnce' = "done"
    /\ det' = [det EXCEPT !.pc = "over"]
    /\ onceReturns' = onceReturns + 1

\* go func() { shellDetectOnce.Do(func() { detectUserShell() }) }()
BgOnceDo ==
    /\ Running
    /\ ~panicked
    /\ bg = "start"
    /\ \/ /\ OnceMayRun
          /\ DetectBegin("bg")
          /\ bg' = "in_do"
          /\ UNCHANGED onceReturns
       \/ /\ ~OnceMayRun
          /\ OnceWaitOver
          /\ bg' = "end"
          /\ onceReturns' = onceReturns + 1
          /\ UNCHANGED <<shellOnce, det, detectRuns>>
    /\ UNCHANGED <<env, peer, cs, cacheWrites, pc, cacheVars, mainVars, openVars, ShellToUse,
                   warned, panicked>>

BgOnceReturn ==
    /\ Running
    /\ ~panicked
    /\ bg = "in_do"
    /\ DetectEnd("bg")
    /\ bg' = "end"
    /\ UNCHANGED <<env, peer, cs, cacheWrites, pc, cacheVars, mainVars, openVars, ShellToUse,
                   detectRuns, warned, panicked>>

\* detectUserShell without the fast path on the SHELL variable
DetectEnv_NoFastPath ==
    /\ Running
    /\ ~panicked
    /\ det.pc = "env"
    /\ IF FALSE
       THEN /\ det' = [det EXCEPT !.pc = "store", !.chosen = Base(env.shellVar)]
            /\ ShellToUse' = [ShellToUse EXCEPT !.len = Len(Base(env.shellVar))]
       ELSE /\ det' = [det EXCEPT !.pc = "select",
                                  !.cand = [sh \in Candidates |-> "check"]]
            /\ ShellToUse' = ShellToUse
    /\ UNCHANGED <<env, peer, cs, cacheWrites, pc, cacheVars, mainVars, openVars, shellOnce, bg,
                   detectRuns, onceReturns, warned, panicked>>

\* the fast path on $SHELL, or else the start of the candidate goroutines
DetectEnv ==
    /\ Running
    /\ ~panicked
    /\ det.pc = "env"
    /\ IF env.shellVar # "" /\ Base(env.shellVar) \in validShells
       THEN /\ det' = [det EXCEPT !.pc = "store", !.chosen = Base(env.shellVar)]
            /\ ShellToUse' = [ShellToUse EXCEPT !.len = Len(Base(env.shellVar))]
       ELSE /\ det' = [det EXCEPT !.pc = "select",
                                  !.cand = [sh \in Candidates |-> "check"]]
            /\ ShellToUse' = ShellToUse
    /\ UNCHANGED <<env, peer, cs, cacheWrites, pc, cacheVars, mainVars, openVars, shellOnce, bg,
                   detectRuns, onceReturns, warned, panicked>>

\* select { case <-done: return; default: ... }
CandCheck(sh) ==
    /\ Running
    /\ ~panicked
    /\ det.cand[sh] = "check"
    /\ det' = [det EXCEPT !.cand[sh] = IF det.doneCloses > 0 THEN "end"
                                       ELSE "lookup"]
    /\ UNCHANGED <<env, peer, cs, cacheWrites, pc, cacheVars, mainVars, openVars, ShellToUse,
                   shellOnce, bg, detectRuns, onceReturns, warned, panicked>>

\* if _, err := exec.LookPath(sh); err == nil
CandLookup(sh) ==
    /\ Running
    /\ ~panicked
    /\ det.cand[sh] = "lookup"
    /\ det' = [det EXCEPT !.cand[sh] = IF LookPath(sh) = "" THEN "end"
                                       ELSE "send"]
    /\ UNCHANGED <<env, peer, cs, cacheWrites, pc, cacheVars, mainVars, openVars, ShellToUse,
                   shellOnce, bg, detectRuns, onceReturns, warned, panicked>>

\* a candidate that assigns its result itself
CandSend_Assigns(sh) ==
    /\ Running
    /\ ~panicked
    /\ det.cand[sh] = "send"
    /\ IF Len(det.resultChan) < 1
       THEN /\ det' = [det EXCEPT !.cand[sh] = "close",
                                  !.resultChan = Append(@, sh)]
            /\ ShellToUse' = [len |-> Len(sh), data |-> sh]
       ELSE /\ det' = [det EXCEPT !.cand[sh] = "end"]
            /\ ShellToUse' = ShellToUse
    /\ UNCHANGED <<env, peer, cs, cacheWrites, pc, cacheVars, mainVars, openVars, shellOnce, bg,
                   detectRuns, onceReturns, warned, panicked>>

\* the plain send resultChan <- sh, which waits while the channel is full
CandSend_Blocks(sh) ==
    /\ Running
    /\ ~panicked
    /\ det.cand[sh] = "send"
    /\ Len(det.resultChan) < 1
    /\ det' = [det EXCEPT !.cand[sh] = "close", !.resultChan = Append(@, sh)]
    /\ UNCHANGED <<env, peer, cs, cacheWrites, pc, cacheVars, mainVars, openVars, ShellToUse,
                   shellOnce, bg, detectRuns, onceReturns, warned, panicked>>

\* select { case resultChan <- sh: ...; default: } on a channel of capacity 1
CandSend(sh) ==
    /\ Running
    /\ ~panicked
    /\ det.cand[sh] = "send"
    /\ IF Len(det.resultChan) < 1
       THEN det' = [det EXCEPT !.cand[sh] = "close",
                               !.resultChan = Append(@, sh)]
       ELSE det' = [det EXCEPT !.cand[sh] = "end"]
    /\ UNCHANGED <<env, peer, cs, cacheWrites, pc, cacheVars, mainVars, openVars, ShellToUse,
                   shellOnce, bg, detectRuns, onceReturns, warned, panicked>>

\* close(done): closing a closed channel panics
CandClose(sh) ==
    /\ Running
    /\ ~panicked
    /\ det.cand[sh] = "close"
    /\ det' = [det EXCEPT !.cand[sh] = "end", !.doneCloses = @ + 1]
    /\ panicked' = (det.doneCloses > 0)
    /\ UNCHANGED <<env, peer, cs, cacheWrites, pc, cacheVars, mainVars, openVars, ShellToUse,
                   shellOnce, bg, detectRuns, onceReturns, warned>>

\* the receive in a loop that goes on after the first result
DetectRecv_Again ==
    /\ Running
    /\ ~panicked
    /\ det.pc \in {"select", "ret"}
    /\ det.resultChan # <<>>
    /\ det' = [det EXCEPT !.pc = "store", !.chosen = Head(det.resultChan),
                          !.resultChan = Tail(@)]
    /\ ShellToUse' = [ShellToUse EXCEPT !.len = Len(Head(det.resultChan))]
    /\ UNCHANGED <<env, peer, cs, cacheWrites, pc, cacheVars, mainVars, openVars, shellOnce, bg,
                   detectRuns, onceReturns, warned, panicked>>

\* the receive that takes the first shell of the list whatever was delivered
DetectRecv_PicksFirstListed ==
    /\ Running
    /\ ~panicked
    /\ det.pc = "select"
    /\ det.resultChan # <<>>
    /\ det' = [det EXCEPT !.pc = "store", !.chosen = possibleShells[1],
                          !.resultChan = Tail(@)]
    /\ ShellToUse' = [ShellToUse EXCEPT !.len = Len(Head(det.resultChan))]
    /\ UNCHANGED <<env, peer, cs, cacheWrites, pc, cacheVars, mainVars, openVars, shellOnce, bg,
                   detectRuns, onceReturns, warned, panicked>>

\* case shell := <-resultChan: defaultConfig.ShellToUse = shell
DetectRecv ==
    /\ Running
    /\ ~panicked
    /\ det.pc = "select"
    /\ det.resultChan # <<>>
    /\ det' = [det EXCEPT !.pc = "store", !.chosen = Head(det.resultChan),
                          !.resultChan = Tail(@)]
    /\ ShellToUse' = [ShellToUse EXCEPT !.len = Len(Head(det.resultChan))]
    /\ UNCHANGED <<env, peer, cs, cacheWrites, pc, cacheVars, mainVars, openVars, shellOnce, bg,
                   detectRuns, onceReturns, warned, panicked>>

\* case <-time.After(200 * time.Millisecond): fall back to sh, with a warning
DetectTimeout ==
    /\ Running
    /\ ~panicked
    /\ det.pc = "select"
    /\ det' = [det EXCEPT !.pc = "store", !.chosen = "sh", !.timedOut = TRUE]
    /\ ShellToUse' = [ShellToUse EXCEPT !.len = Len("sh")]
    /\ warned' = TRUE
    /\ UNCHANGED <<env, peer, cs, cacheWrites, pc, cacheVars, mainVars, openVars, shellOnce, bg,
                   detectRuns, onceReturns, panicked>>

\* the second word of the assignment to defaultConfig.ShellToUse
DetectStore ==
    /\ Running
    /\ ~panicked
    /\ det.pc = "store"
    /\ ShellToUse' = [ShellToUse EXCEPT !.data = det.chosen]
    /\ det' = [det EXCEPT !.pc = "ret"]
    /\ UNCHANGED <<env, peer, cs, cacheWrites, pc, cacheVars, mainVars, openVars, shellOnce, bg,
                   detectRuns, onceReturns, warned, panicked>>

detectUserShell ==
    \/ DetectEnv
    \/ \E sh \in Candidates : CandCheck(sh)
    \/ \E sh \in Candidates : CandLookup(sh)
    \/ \E sh \in Candidates : CandSend(sh)
    \/ \E sh \in Candidates : CandClose(sh)
    \/ DetectRecv
    \/ DetectTimeout
    \/ DetectStore

\* the shell detector before init() has started it
ShellInit ==
    /\ ShellToUse = NilString
    /\ shellOnce = "fresh"
    /\ det = DetIdle
    /\ bg = "start"
    /\ detectRuns = 0
    /\ onceReturns = 0
    /\ warned = FALSE
    /\ panicked = FALSE

-----------------------------------------------------------------------------
(* getPathViaFZF: the command line of the picker.                          *)

defaultConfig ==
    [Terminal |-> "alacritty", StartingDir |-> "~", WinTitleFlag |-> "--title",
     WinTitle |-> "fzf-open-run",
     FzfCommand |-> "fzf --ansi --prompt='Select file> ' --no-multi"]

tmpFzfOutput == "/tmp/fzf-open"

\* strings.Replace(s, "\"", "\\\"", -1)
RECURSIVE EscapeQuotes(_)
EscapeQuotes(s) ==
    IF s = "" THEN ""
    ELSE (IF Char(s, 1) = "\"" THEN "\\\"" ELSE Char(s, 1))
             \o EscapeQuotes(SubSeq(s, 2, Len(s)))

shellQuote(s) == "\"" \o EscapeQuotes(s) \o "\""

fzfCommand(startingDir) ==
    "cd " \o shellQuote(startingDir) \o " && " \o defaultConfig.FzfCommand
        \o " > " \o shellQuote(tmpFzfOutput)

NoCmd == [name |-> "", args |-> <<>>]

\* getPathViaFZF has not been called
GPIdle ==
    [fellBack |-> FALSE, err |-> "", selectedPath |-> "", exit |-> 0,
     runErr |-> "none"]

NoFallbackCheck == [task |-> "none", chan |-> <<>>]

NoTmpFile == [exists |-> FALSE, content |-> ""]

\* no second instance is running
PeerIdle == [pc |-> "none", picked |-> "", read |-> NoTmpFile]

\* the state of main before it runs, init() having found the home directory
RunInit ==
    /\ userHomeDir = "/home/u"
    /\ gp = GPIdle
    /\ fallbackValid = NoFallbackCheck
    /\ tmpFile = NoTmpFile
    /\ pickerRuns = 0
    /\ stderr = <<>>
    /\ exitCode = -1

\* if cfg.SpawnTerm { if cfg.UseShellIC { if defaultConfig.ShellToUse == ""
FzfTermCheckShell ==
    /\ ~panicked
    /\ pc = "fzf_cmd"
    /\ cfg.SpawnTerm
    /\ cfg.UseShellIC
    /\ pc' = IF ShellToUse.len = 0 THEN "fzf_once" ELSE "fzf_term"
    /\ UNCHANGED <<env, peer, cs, cacheWrites, cacheVars, shellVars, mainVars, openVars>>

\* shellDetectOnce.Do(detectUserShell), called by main
FzfOnceDo ==
    /\ ~panicked
    /\ pc = "fzf_once"
    /\ \/ /\ OnceMayRun
          /\ DetectBegin("main")
          /\ pc' = "fzf_in_do"
          /\ UNCHANGED onceReturns
       \/ /\ ~OnceMayRun
          /\ OnceWaitOver
          /\ pc' = "fzf_term"
          /\ onceReturns' = onceReturns + 1
          /\ UNCHANGED <<shellOnce, det, detectRuns>>
    /\ UNCHANGED <<env, peer, cs, cacheWrites, cacheVars, mainVars, openVars, ShellToUse, bg,
                   warned, panicked>>

FzfOnceReturn ==
    /\ ~panicked
    /\ pc = "fzf_in_do"
    /\ DetectEnd("main")
    /\ pc' = "fzf_term"
    /\ UNCHANGED <<env, peer, cs, cacheWrites, cacheVars, mainVars, openVars, ShellToUse, bg,
                   detectRuns, warned, panicked>>

\* args = [--title fzf-open-run -e ShellToUse flags... fzfCommand]; a string
\* read between the two stores of its writer has a nil data word, and the
\* first comparison of its bytes is a fatal signal
FzfTermArgs ==
    /\ ~panicked
    /\ pc = "fzf_term"
    /\ IF IsTorn(ShellToUse)
       THEN /\ panicked' = TRUE
            /\ UNCHANGED <<pc, cmd>>
       ELSE /\ cmd' = [name |-> cfg.Terminal,
                       args |-> <<defaultConfig.WinTitleFlag,
                                  defaultConfig.WinTitle, "-e",
                                  StringValue(ShellToUse)>>
                                \o getShellInteractiveFlag(StringValue(ShellToUse))
                                \o <<fzfCommand(cfg.StartingDir)>>]
            /\ pc' = "fzf_run"
            /\ UNCHANGED panicked
    /\ UNCHANGED <<env, peer, cs, cacheWrites, cacheVars, openVars, cfg, runVars, ShellToUse, shellOnce, det,
                   bg, detectRuns, onceReturns, warned>>

\* the terminal without the interactive shell: -e /bin/sh -c fzfCommand
FzfTermPlain ==
    /\ ~panicked
    /\ pc = "fzf_cmd"
    /\ cfg.SpawnTerm
    /\ ~cfg.UseShellIC
    /\ cmd' = [name |-> cfg.Terminal,
               args |-> <<defaultConfig.WinTitleFlag, defaultConfig.WinTitle,
                          "-e", "/bin/sh", "-c", fzfCommand(cfg.StartingDir)>>]
    /\ pc' = "fzf_run"
    /\ UNCHANGED <<env, peer, cs, cacheWrites, cacheVars, shellVars, openVars, cfg, runVars>>

\* no terminal: the picker runs under ShellToUse if it is set and not sh,
\* under /bin/sh otherwise
FzfDirect ==
    /\ ~panicked
    /\ pc = "fzf_cmd"
    /\ ~cfg.SpawnTerm
    /\ IF cfg.UseShellIC /\ IsTorn(ShellToUse)
       THEN /\ panicked' = TRUE
            /\ UNCHANGED <<pc, cmd>>
       ELSE /\ cmd' = IF cfg.UseShellIC /\ StringValue(ShellToUse) \notin {"", "sh"}
                      THEN [name |-> StringValue(ShellToUse),
                            args |-> getShellInteractiveFlag(StringValue(ShellToUse))
                                     \o <<fzfCommand(cfg.StartingDir)>>]
                      ELSE [name |-> "/bin/sh",
                            args |-> <<"-c", fzfCommand(cfg.StartingDir)>>]
            /\ pc' = "fzf_run"
            /\ UNCHANGED panicked
    /\ UNCHANGED <<env, peer, cs, cacheWrites, cacheVars, openVars, cfg, runVars, ShellToUse, shellOnce, det,
                   bg, detectRuns, onceReturns, warned>>

BuildPickerCommand ==
    \/ FzfTermCheckShell
    \/ FzfOnceDo
    \/ FzfOnceReturn
    \/ FzfTermArgs
    \/ FzfTermPlain
    \/ FzfDirect

-----------------------------------------------------------------------------
(* launchApp, one activation per calling goroutine.                        *)

appAssociations ==
    [TextEditor |-> "zeditor", PDFViewer |-> "zathura", ImageViewer |-> "eog",
     VideoPlayer |-> "vlc", SpreadsheetEditor |-> "wps",
     WebBrowser |-> "thorium-browser", DocxViewer |-> "wps",
     FallbackOpener |-> "xdg-open"]

IsSpace(c) == c \in {" ", "\t", "\n", "\r"}

\* strings.Fields: the maximal runs of non-space characters, in order
RECURSIVE FieldsFrom(_, _, _)
FieldsFrom(s, field, fields) ==
    IF s = "" THEN (IF field = "" THEN fields ELSE Append(fields, field))
    ELSE IF IsSpace(Char(s, 1))
         THEN FieldsFrom(SubSeq(s, 2, Len(s)), "",
                         IF field = "" THEN fields ELSE Append(fields, field))
         ELSE FieldsFrom(SubSeq(s, 2, Len(s)), field \o Char(s, 1), fields)

Fields(s) == FieldsFrom(s, "", <<>>)

LAIdle ==
    [pc |-> "idle", id |-> 0, appCommand |-> "", filePath |-> "",
     appPath |-> "", lookErr |-> "", ret |-> FALSE]

\* the launchApp calls begun so far number the calls
InFlight == {t \in Threads : lap[t].pc # "idle"}

LACall(appCommand, filePath) ==
    [LAIdle EXCEPT !.pc = "start", !.appCommand = appCommand,
                   !.filePath = filePath,
                   !.id = Len(launchLog) + Cardinality(InFlight) + 1]

\* empty command, or no field in it: return false; else resolve parts[0]
LAStart(t) ==
    /\ Running
    /\ lap[t].pc = "start"
    /\ IF lap[t].appCommand = "" \/ Len(Fields(lap[t].appCommand)) = 0
       THEN /\ lap' = [lap EXCEPT ![t].pc = "ret", ![t].ret = FALSE]
            /\ clp' = clp
       ELSE /\ lap' = [lap EXCEPT ![t].pc = "lookup"]
            /\ clp' = [clp EXCEPT ![t] = CLPCall(Fields(lap[t].appCommand)[1])]
    /\ UNCHANGED <<env, peer, cs, cacheWrites, pc, shellVars, mainVars, pathCache, mimeCache, gmt,
                   orphans, pw, callLog, procs, launchLog, op>>

\* the lookup that goes on to start the process whatever cachedLookPath said
LAResolved_IgnoreErr(t) ==
    /\ Running
    /\ lap[t].pc = "lookup"
    /\ clp[t].pc = "ret"
    /\ lap' = [lap EXCEPT ![t].pc = "exec", ![t].lookErr = clp[t].err,
                          ![t].appPath = clp[t].path]
    /\ clp' = [clp EXCEPT ![t] = CLPIdle]
    /\ UNCHANGED <<env, peer, cs, cacheWrites, pc, shellVars, mainVars, pathCache, mimeCache, gmt,
                   orphans, pw, callLog, procs, launchLog, op>>

\* appPath, err := cachedLookPath(appName); if err != nil { return false }
LAResolved(t) ==
    /\ Running
    /\ lap[t].pc = "lookup"
    /\ clp[t].pc = "ret"
    /\ lap' = [lap EXCEPT ![t].pc = IF clp[t].err # "" THEN "ret" ELSE "exec",
                          ![t].lookErr = clp[t].err,
                          ![t].appPath = clp[t].path,
                          ![t].ret = FALSE]
    /\ clp' = [clp EXCEPT ![t] = CLPIdle]
    /\ UNCHANGED <<env, peer, cs, cacheWrites, pc, shellVars, mainVars, pathCache, mimeCache, gmt,
                   orphans, pw, callLog, procs, launchLog, op>>

\* cmd.Start() succeeds: the child runs in its own process group, with no
\* stream of the parent
LAExecOk(t) ==
    /\ Running
    /\ lap[t].pc = "exec"
    /\ procs' = Append(procs,
            [by |-> lap[t].id, path |-> lap[t].appPath,
             args |-> Tail(Fields(lap[t].appCommand)) \o <<lap[t].filePath>>,
             setpgid |-> TRUE, state |-> "running"])
    /\ lap' = [lap EXCEPT ![t].pc = "started"]
    /\ UNCHANGED <<env, peer, cs, cacheWrites, pc, shellVars, mainVars, cacheVars, launchLog, op>>

\* cmd.Start() fails: return false
LAExecFail(t) ==
    /\ Running
    /\ lap[t].pc = "exec"
    /\ lap' = [lap EXCEPT ![t].pc = "ret", ![t].ret = FALSE]
    /\ UNCHANGED <<env, peer, cs, cacheWrites, pc, shellVars, mainVars, cacheVars, procs, launchLog,
                   op>>

\* the child launchApp has started
ChildOf(id) == {i \in 1..Len(procs) : procs[i].by = id}

\* return true right after the start, whatever the child does
LAReturn(t) ==
    /\ Running
    /\ lap[t].pc = "started"
    /\ lap' = [lap EXCEPT ![t].pc = "ret", ![t].ret = TRUE]
    /\ UNCHANGED <<env, peer, cs, cacheWrites, pc, shellVars, mainVars, cacheVars, procs, launchLog,
                   op>>

\* a started application exits, at a time of its own
ChildExit(i) ==
    /\ procs[i].state = "running"
    /\ procs' = [procs EXCEPT ![i].state = "exited"]
    /\ UNCHANGED <<env, peer, cs, cacheWrites, pc, shellVars, mainVars, cacheVars, lap, launchLog, op>>

launchApp(t) ==
    \/ LAStart(t)
    \/ LAResolved(t)
    \/ LAExecOk(t)
    \/ LAExecFail(t)
    \/ LAReturn(t)

\* what a caller of launchApp notes when the call has returned
LogLaunch(t) ==
    Append(launchLog,
           [id |-> lap[t].id, appCommand |-> lap[t].appCommand,
            lookErr |-> lap[t].lookErr, ret |-> lap[t].ret])

-----------------------------------------------------------------------------
(* openFileWithConfiguredApp, run by the main goroutine.                   *)

\* the locals of openFileWithConfiguredApp before it is called
OpenIdle ==
    [pc |-> "idle", filePath |-> "", FileName |-> "", Ext |-> "",
     MIMEType |-> "", extRule |-> "none", appToLaunch |-> "",
     mimeQueries |-> 0, success |-> <<>>, task |-> "none", err |-> ""]

extToPDFViewer == {"pdf"}
extToDocxViewer == {"docx", "doc"}
extToImageViewer ==
    {"png", "jpg", "jpeg", "gif", "bmp", "webp", "svg", "ico", "tif", "tiff"}
extToVideoPlayer ==
    {"flv", "avi", "mov", "mp4", "mkv", "webm", "wmv", "mpeg", "mpg", "mp3",
     "ogg", "oga", "wav", "flac", "opus", "aac", "m4a"}
extToSpreadsheet == {"csv", "tsv", "ods", "xlsx"}
extToWebBrowser == {"htm", "html", "xhtml"}
extToTextEditor ==
    {"txt", "md", "markdown", "sh", "bash", "zsh", "fish", "py", "rb", "js",
     "jsx", "ts", "tsx", "c", "cpp", "h", "hpp", "java", "go", "rs", "php",
     "pl", "lua", "sql", "json", "yaml", "yml", "toml", "xml", "css", "scss",
     "less", "conf", "cfg", "log", "ini", "desktop", "service", "env",
     "gitignore", "dockerfile", ""}

\* extWithDot := filepath.Ext(FileName); Ext = ToLower(extWithDot[1:])
FileExt(fileName) ==
    IF Ext(fileName) # ""
    THEN ToLower(SubSeq(Ext(fileName), 2, Len(Ext(fileName))))
    ELSE ""

\* the chain without the map of the document viewer
ExtRule_NoDocx(ext) ==
    IF ext \in extToPDFViewer THEN "pdf"
    ELSE IF ext \in extToImageViewer THEN "image"
    ELSE IF ext \in extToVideoPlayer THEN "video"
    ELSE IF ext \in extToSpreadsheet THEN "spreadsheet"
    ELSE IF ext \in extToWebBrowser THEN "web"
    ELSE IF ext \in extToTextEditor THEN "text"
    ELSE "none"

\* the if-else chain over the extension maps: which map holds the extension
ExtRule(ext) ==
    IF ext \in extToPDFViewer THEN "pdf"
    ELSE IF ext \in extToDocxViewer THEN "docx"
    ELSE IF ext \in extToImageViewer THEN "image"
    ELSE IF ext \in extToVideoPlayer THEN "video"
    ELSE IF ext \in extToSpreadsheet THEN "spreadsheet"
    ELSE IF ext \in extToWebBrowser THEN "web"
    ELSE IF ext \in extToTextEditor THEN "text"
    ELSE "none"

RuleApp(rule) ==
    IF rule = "pdf" THEN appAssociations.PDFViewer
    ELSE IF rule = "docx" THEN appAssociations.DocxViewer
    ELSE IF rule = "image" THEN appAssociations.ImageViewer
    ELSE IF rule = "video" THEN appAssociations.VideoPlayer
    ELSE IF rule = "spreadsheet" THEN appAssociations.SpreadsheetEditor
    ELSE IF rule = "web" THEN appAssociations.WebBrowser
    ELSE IF rule = "text" THEN appAssociations.TextEditor
    ELSE ""

\* a text branch that asks for the MIME type of every file
NeedsMimeCheck_Always(ext) == TRUE

\* the text branch asks for the MIME type only for the empty extension
NeedsMimeCheck(ext) == ext = ""

\* an empty extension that selects the text editor whatever the MIME type
TextGuard_Always(mimeType) == TRUE

\* the condition under which the empty extension selects the text editor
TextGuard(mimeType) ==
    \/ mimeType = ""
    \/ HasPrefix(mimeType, mimeTextPrefix)
    \/ mimeType = mimeApplicationScript
    \/ mimeType = mimeApplicationJS
    \/ mimeType = mimeApplicationJSON
    \/ mimeType = mimeApplicationXML
    \/ mimeType = mimeInodeEmpty

getAppByMIME(mimeType) ==
    IF \/ HasPrefix(mimeType, mimeTextPrefix)
       \/ mimeType = mimeApplicationScript
       \/ mimeType = mimeApplicationJS
       \/ mimeType = mimeApplicationJSON
       \/ mimeType = mimeApplicationXML
       \/ mimeType = mimeInodeEmpty
        THEN appAssociations.TextEditor
    ELSE IF HasPrefix(mimeType, mimeImagePrefix)
        THEN appAssociations.ImageViewer
    ELSE IF \/ HasPrefix(mimeType, mimeVideoPrefix)
            \/ HasPrefix(mimeType, mimeAudioPrefix)
        THEN appAssociations.VideoPlayer
    ELSE IF mimeType = mimePDF THEN appAssociations.PDFViewer
    ELSE IF mimeType \in {mimeWordDocx, mimeWordDoc, mimeODT}
        THEN appAssociations.DocxViewer
    ELSE IF mimeType \in {mimeODS, mimeExcel, mimeExcelX}
        THEN appAssociations.SpreadsheetEditor
    ELSE ""

OpenCall(filePath) == [OpenIdle EXCEPT !.pc = "stat", !.filePath = filePath]

\* fi, err := os.Stat(filePath): a missing file is an error; a directory
\* starts the text editor in a goroutine; a file gets its extension matched
OpenStat ==
    /\ Running
    /\ op.pc = "stat"
    /\ IF ~StatOk(op.filePath)
       THEN /\ op' = [op EXCEPT !.pc = "ret", !.err = "notfound"]
            /\ UNCHANGED <<lap, gmt>>
       ELSE IF op.filePath \in env.dirs
       THEN /\ op' = [op EXCEPT !.pc = "dir_select", !.task = "launching",
                                !.FileName = Base(op.filePath)]
            /\ lap' = [lap EXCEPT !["task"] =
                          LACall(appAssociations.TextEditor, op.filePath)]
            /\ UNCHANGED gmt
       ELSE LET ext == FileExt(Base(op.filePath))
                rule == ExtRule(ext)
            IN  /\ IF rule = "text" /\ NeedsMimeCheck(ext)
                   THEN /\ op' = [op EXCEPT !.pc = "ext_mime",
                                            !.FileName = Base(op.filePath),
                                            !.Ext = ext, !.extRule = rule,
                                            !.mimeQueries = @ + 1]
                        /\ gmt' = [gmt EXCEPT !["main"] = GMCall(op.filePath)]
                   ELSE /\ op' = [op EXCEPT !.pc = "mime_fallback",
                                            !.FileName = Base(op.filePath),
                                            !.Ext = ext, !.extRule = rule,
                                            !.appToLaunch = RuleApp(rule)]
                        /\ gmt' = gmt
                /\ UNCHANGED lap
    /\ UNCHANGED <<env, peer, cs, cacheWrites, pc, shellVars, mainVars, pathCache, mimeCache, clp,
                   orphans, pw, callLog, procs, launchLog>>

\* getMimeType has answered for the empty extension: apply the guard
OpenExtMime ==
    /\ Running
    /\ op.pc = "ext_mime"
    /\ gmt["main"].pc = "ret"
    /\ op' = [op EXCEPT !.pc = "mime_fallback", !.MIMEType = gmt["main"].mime,
                        !.appToLaunch = IF TextGuard(gmt["main"].mime)
                                        THEN appAssociations.TextEditor
                                        ELSE ""]
    /\ gmt' = [gmt EXCEPT !["main"] = GMIdle]
    /\ UNCHANGED <<env, peer, cs, cacheWrites, pc, shellVars, mainVars, pathCache, mimeCache, clp,
                   orphans, pw, callLog, lap, procs, launchLog>>

\* the fallback without the test of line 635: it queries although the MIME type is known
OpenMimeFallback_Requeries ==
    /\ Running
    /\ op.pc = "mime_fallback"
    /\ IF op.appToLaunch = ""
       THEN /\ op' = [op EXCEPT !.pc = "mime_query", !.mimeQueries = @ + 1]
            /\ gmt' = [gmt EXCEPT !["main"] = GMCall(op.filePath)]
       ELSE /\ op' = [op EXCEPT !.pc = "launch",
                                !.appToLaunch =
                                    IF op.appToLaunch = ""
                                    THEN getAppByMIME(op.MIMEType)
                                    ELSE @]
            /\ gmt' = gmt
    /\ UNCHANGED <<env, peer, cs, cacheWrites, pc, shellVars, mainVars, pathCache, mimeCache, clp,
                   orphans, pw, callLog, lap, procs, launchLog>>

\* if appToLaunch == "": query the MIME type unless it is already known,
\* then ask getAppByMIME
OpenMimeFallback ==
    /\ Running
    /\ op.pc = "mime_fallback"
    /\ IF op.appToLaunch = "" /\ op.MIMEType = ""
       THEN /\ op' = [op EXCEPT !.pc = "mime_query", !.mimeQueries = @ + 1]
            /\ gmt' = [gmt EXCEPT !["main"] = GMCall(op.filePath)]
       ELSE /\ op' = [op EXCEPT !.pc = "launch",
                                !.appToLaunch =
                                    IF op.appToLaunch = ""
                                    THEN getAppByMIME(op.MIMEType)
                                    ELSE @]
            /\ gmt' = gmt
    /\ UNCHANGED <<env, peer, cs, cacheWrites, pc, shellVars, mainVars, pathCache, mimeCache, clp,
                   orphans, pw, callLog, lap, procs, launchLog>>

\* getMimeType has answered for the fallback
OpenMimeQueried ==
    /\ Running
    /\ op.pc = "mime_query"
    /\ gmt["main"].pc = "ret"
    /\ op' = [op EXCEPT !.pc = "launch", !.MIMEType = gmt["main"].mime,
                        !.appToLaunch = IF gmt["main"].mime # ""
                                        THEN getAppByMIME(gmt["main"].mime)
                                        ELSE ""]
    /\ gmt' = [gmt EXCEPT !["main"] = GMIdle]
    /\ UNCHANGED <<env, peer, cs, cacheWrites, pc, shellVars, mainVars, pathCache, mimeCache, clp,
                   orphans, pw, callLog, lap, procs, launchLog>>

\* if appToLaunch != "" { launchApp(appToLaunch, filePath) } else the
\* fallback opener
OpenLaunch ==
    /\ Running
    /\ op.pc = "launch"
    /\ IF op.appToLaunch # ""
       THEN /\ op' = [op EXCEPT !.pc = "launching"]
            /\ lap' = [lap EXCEPT !["main"] = LACall(op.appToLaunch, op.filePath)]
       ELSE /\ op' = [op EXCEPT !.pc = "fallback"]
            /\ lap' = [lap EXCEPT !["main"] =
                          LACall(appAssociations.FallbackOpener, op.filePath)]
    /\ UNCHANGED <<env, peer, cs, cacheWrites, pc, shellVars, mainVars, cacheVars, procs, launchLog>>

\* the selected application's launch followed by the fallback whatever it
\* returned
OpenLaunched_AlwaysFallback ==
    /\ Running
    /\ op.pc = "launching"
    /\ lap["main"].pc = "ret"
    /\ launchLog' = LogLaunch("main")
    /\ op' = [op EXCEPT !.pc = "fallback"]
    /\ lap' = [lap EXCEPT !["main"] =
                  LACall(appAssociations.FallbackOpener, op.filePath)]
    /\ UNCHANGED <<env, peer, cs, cacheWrites, pc, shellVars, mainVars, cacheVars, procs>>

\* the selected application: started means return nil, else the fallback
OpenLaunched ==
    /\ Running
    /\ op.pc = "launching"
    /\ lap["main"].pc = "ret"
    /\ launchLog' = LogLaunch("main")
    /\ IF lap["main"].ret
       THEN /\ op' = [op EXCEPT !.pc = "ret"]
            /\ lap' = [lap EXCEPT !["main"] = LAIdle]
       ELSE /\ op' = [op EXCEPT !.pc = "fallback"]
            /\ lap' = [lap EXCEPT !["main"] =
                          LACall(appAssociations.FallbackOpener, op.filePath)]
    /\ UNCHANGED <<env, peer, cs, cacheWrites, pc, shellVars, mainVars, cacheVars, procs>>

\* if !launchApp(FallbackOpener, filePath) { return error }; return nil
OpenFallbackDone ==
    /\ Running
    /\ op.pc \in {"fallback", "dir_fallback"}
    /\ lap["main"].pc = "ret"
    /\ launchLog' = LogLaunch("main")
    /\ op' = [op EXCEPT !.pc = "ret",
                        !.err = IF lap["main"].ret THEN "" ELSE "nolaunch"]
    /\ lap' = [lap EXCEPT !["main"] = LAIdle]
    /\ UNCHANGED <<env, peer, cs, cacheWrites, pc, shellVars, mainVars, cacheVars, procs>>

\* go func() { success <- launchApp(TextEditor, filePath) }(): the send, on
\* a channel of capacity 2
OpenDirTaskSend ==
    /\ Running
    /\ op.task = "launching"
    /\ lap["task"].pc = "ret"
    /\ launchLog' = LogLaunch("task")
    /\ op' = [op EXCEPT !.task = "done", !.success = Append(@, lap["task"].ret)]
    /\ lap' = [lap EXCEPT !["task"] = LAIdle]
    /\ UNCHANGED <<env, peer, cs, cacheWrites, pc, shellVars, mainVars, cacheVars, procs>>

\* case result := <-success: started means return nil, else the fallback
OpenDirRecv ==
    /\ Running
    /\ op.pc = "dir_select"
    /\ op.success # <<>>
    /\ IF Head(op.success)
       THEN /\ op' = [op EXCEPT !.pc = "ret", !.success = Tail(@)]
            /\ lap' = lap
       ELSE /\ op' = [op EXCEPT !.pc = "dir_fallback", !.success = Tail(@)]
            /\ lap' = [lap EXCEPT !["main"] =
                          LACall(appAssociations.FallbackOpener, op.filePath)]
    /\ UNCHANGED <<env, peer, cs, cacheWrites, pc, shellVars, mainVars, cacheVars, procs, launchLog>>

\* case <-time.After(200 * time.Millisecond): the fallback
OpenDirTimeout ==
    /\ Running
    /\ op.pc = "dir_select"
    /\ op' = [op EXCEPT !.pc = "dir_fallback"]
    /\ lap' = [lap EXCEPT !["main"] =
                  LACall(appAssociations.FallbackOpener, op.filePath)]
    /\ UNCHANGED <<env, peer, cs, cacheWrites, pc, shellVars, mainVars, cacheVars, procs, launchLog>>

openFileWithConfiguredApp ==
    \/ OpenStat
    \/ OpenExtMime
    \/ OpenMimeFallback
    \/ OpenMimeQueried
    \/ OpenLaunch
    \/ OpenLaunched
    \/ OpenFallbackDone
    \/ OpenDirTaskSend
    \/ OpenDirRecv
    \/ OpenDirTimeout

\* nothing has been opened or launched yet
OpenInit ==
    /\ lap = [t \in Threads |-> LAIdle]
    /\ procs = <<>>
    /\ launchLog = <<>>
    /\ op = OpenIdle

-----------------------------------------------------------------------------
(* main, expandPath and the rest of getPathViaFZF.                         *)

\* the path elements between the slashes, the empty ones dropped
RECURSIVE ElemsFrom(_, _, _)
ElemsFrom(s, elem, elems) ==
    IF s = "" THEN (IF elem = "" THEN elems ELSE Append(elems, elem))
    ELSE IF Char(s, 1) = "/"
        THEN ElemsFrom(SubSeq(s, 2, Len(s)), "",
                       IF elem = "" THEN elems ELSE Append(elems, elem))
    ELSE ElemsFrom(SubSeq(s, 2, Len(s)), elem \o Char(s, 1), elems)

\* filepath.Clean on the elements: "." dropped, ".." removes its parent
RECURSIVE CleanElems(_, _, _)
CleanElems(elems, out, rooted) ==
    IF elems = <<>> THEN out
    ELSE IF Head(elems) = "." THEN CleanElems(Tail(elems), out, rooted)
    ELSE IF Head(elems) = ".."
        THEN IF out # <<>> /\ out[Len(out)] # ".."
             THEN CleanElems(Tail(elems), SubSeq(out, 1, Len(out) - 1), rooted)
             ELSE IF rooted THEN CleanElems(Tail(elems), out, rooted)
             ELSE CleanElems(Tail(elems), Append(out, ".."), rooted)
    ELSE CleanElems(Tail(elems), Append(out, Head(elems)), rooted)

RECURSIVE JoinElems(_)
JoinElems(elems) ==
    IF elems = <<>> THEN ""
    ELSE IF Len(elems) = 1 THEN elems[1]
    ELSE elems[1] \o "/" \o JoinElems(Tail(elems))

\* filepath.Clean
Clean(path) ==
    LET out == CleanElems(ElemsFrom(path, "", <<>>), <<>>, IsAbs(path))
    IN  IF IsAbs(path) THEN "/" \o JoinElems(out)
        ELSE IF out = <<>> THEN "."
        ELSE JoinElems(out)

\* filepath.Join of two elements: empty elements are ignored, the result is
\* cleaned
Join(a, b) ==
    IF a = "" /\ b = "" THEN ""
    ELSE IF a = "" THEN Clean(b)
    ELSE IF b = "" THEN Clean(a)
    ELSE Clean(a \o "/" \o b)

\* filepath.Abs
Abs(path) == IF IsAbs(path) THEN Clean(path) ELSE Join(env.cwd, path)

\* os.Stat(path) succeeds and IsDir() is true
IsDir(path) == path # "" /\ Abs(path) \in env.dirs

\* os.Stat(path) succeeds, for a path that may be relative
Exists(path) == path # "" /\ Abs(path) \in env.existing

\* strings.TrimSpace
RECURSIVE TrimSpace(_)
TrimSpace(s) ==
    IF s = "" THEN ""
    ELSE IF IsSpace(Char(s, 1)) THEN TrimSpace(SubSeq(s, 2, Len(s)))
    ELSE IF IsSpace(Char(s, Len(s))) THEN TrimSpace(SubSeq(s, 1, Len(s) - 1))
    ELSE s

Contains(s, c) == \E i \in 1..Len(s) : Char(s, i) = c

NameChars == "abcdefghijklmnopqrstuvwxyzABCDEFGHIJKLMNOPQRSTUVWXYZ0123456789_"

IsNameChar(c) == Contains(NameChars, c)

\* how many leading characters of s belong to a variable name
RECURSIVE NameLen(_)
NameLen(s) ==
    IF s # "" /\ IsNameChar(Char(s, 1)) THEN 1 + NameLen(SubSeq(s, 2, Len(s)))
    ELSE 0

\* os.Getenv
Getenv(name) == IF name \in DOMAIN env.vars THEN env.vars[name] ELSE ""

\* os.ExpandEnv for the $NAME form: the name is replaced by its value, an
\* unset variable by "", and a $ that no name follows is kept
RECURSIVE ExpandEnv(_)
ExpandEnv(s) ==
    IF s = "" THEN ""
    ELSE IF Char(s, 1) = "$" /\ NameLen(SubSeq(s, 2, Len(s))) > 0
        THEN LET n == NameLen(SubSeq(s, 2, Len(s)))
             IN  Getenv(SubSeq(s, 2, n + 1)) \o ExpandEnv(SubSeq(s, n + 2, Len(s)))
    ELSE Char(s, 1) \o ExpandEnv(SubSeq(s, 2, Len(s)))

\* expandPath(path) with userHomeDir = home: the expanded path, the error,
\* and the value userHomeDir has afterwards
expandPath(path, home) ==
    IF path = "" THEN [path |-> "", err |-> "", home |-> home]
    ELSE IF Char(path, 1) = "~"
        THEN IF home # ""
             THEN [path |-> IF Len(path) = 1 THEN home
                            ELSE home \o SubSeq(path, 2, Len(path)),
                   err |-> "", home |-> home]
             ELSE IF ~env.userOk
             THEN [path |-> "", err |-> "could not get current user",
                   home |-> home]
             ELSE [path |-> IF Len(path) = 1 THEN env.homeDir
                            ELSE Join(env.homeDir, SubSeq(path, 2, Len(path))),
                   err |-> "", home |-> env.homeDir]
    ELSE IF ~Contains(path, "$")
        THEN [path |-> path, err |-> "", home |-> home]
    ELSE [path |-> ExpandEnv(path), err |-> "", home |-> home]

\* startingDir, err := expandPath(cfg.StartingDir); if err != nil { print;
\* os.Exit(1) }; cfg.StartingDir = startingDir
MainExpand ==
    /\ ~panicked
    /\ pc = "main"
    /\ LET r == expandPath(cfg.StartingDir, userHomeDir)
       IN  /\ userHomeDir' = r.home
           /\ IF r.err # ""
              THEN /\ stderr' = Append(stderr, "Error expanding Starting Directory path")
                   /\ exitCode' = 1
                   /\ pc' = "exited"
                   /\ cfg' = cfg
              ELSE /\ cfg' = [cfg EXCEPT !.StartingDir = r.path]
                   /\ pc' = "getpath"
                   /\ UNCHANGED <<stderr, exitCode>>
    /\ UNCHANGED <<env, peer, cs, cacheWrites, cacheVars, shellVars, openVars, cmd, gp, fallbackValid,
                   tmpFile, pickerRuns>>

\* lines 356-378 without cfg.StartingDir = fallbackDir
GetPathStat_KeepsDir ==
    /\ ~panicked
    /\ pc = "getpath"
    /\ IF IsDir(cfg.StartingDir)
       THEN /\ pc' = "fzf_cmd"
            /\ UNCHANGED <<cfg, userHomeDir, gp, fallbackValid, stderr>>
       ELSE LET r == IF userHomeDir # ""
                     THEN [path |-> userHomeDir, err |-> "", home |-> userHomeDir]
                     ELSE expandPath("~", userHomeDir)
            IN  /\ userHomeDir' = r.home
                /\ IF r.err # ""
                   THEN /\ gp' = [gp EXCEPT !.fellBack = TRUE,
                                     !.err = "failed to determine fallback directory"]
                        /\ pc' = "getpath_ret"
                        /\ UNCHANGED <<cfg, fallbackValid, stderr>>
                   ELSE /\ cfg' = cfg
                        /\ stderr' = Append(stderr, "Warning: STARTING_DIR is invalid, falling back")
                        /\ fallbackValid' = [task |-> "stat", chan |-> <<>>]
                        /\ gp' = [gp EXCEPT !.fellBack = TRUE]
                        /\ pc' = "fb_select"
    /\ UNCHANGED <<env, peer, cs, cacheWrites, cacheVars, shellVars, openVars, cmd, tmpFile,
                   pickerRuns, exitCode>>

\* getPathViaFZF, lines 356-378: a valid starting directory goes on to the
\* picker command; an invalid one is replaced by the home directory, with a
\* warning, and a goroutine is started to check the replacement
GetPathStat ==
    /\ ~panicked
    /\ pc = "getpath"
    /\ IF IsDir(cfg.StartingDir)
       THEN /\ pc' = "fzf_cmd"
            /\ UNCHANGED <<cfg, userHomeDir, gp, fallbackValid, stderr>>
       ELSE LET r == IF userHomeDir # ""
                     THEN [path |-> userHomeDir, err |-> "", home |-> userHomeDir]
                     ELSE expandPath("~", userHomeDir)
            IN  /\ userHomeDir' = r.home
                /\ IF r.err # ""
                   THEN /\ gp' = [gp EXCEPT !.fellBack = TRUE,
                                     !.err = "failed to determine fallback directory"]
                        /\ pc' = "getpath_ret"
                        /\ UNCHANGED <<cfg, fallbackValid, stderr>>
                   ELSE /\ cfg' = [cfg EXCEPT !.StartingDir = r.path]
                        /\ stderr' = Append(stderr, "Warning: STARTING_DIR is invalid, falling back")
                        /\ fallbackValid' = [task |-> "stat", chan |-> <<>>]
                        /\ gp' = [gp EXCEPT !.fellBack = TRUE]
                        /\ pc' = "fb_select"
    /\ UNCHANGED <<env, peer, cs, cacheWrites, cacheVars, shellVars, openVars, cmd, tmpFile,
                   pickerRuns, exitCode>>

\* go func() { stat cfg.StartingDir; fallbackValid <- (ok && IsDir) }()
FallbackCheck ==
    /\ Running
    /\ fallbackValid.task = "stat"
    /\ fallbackValid' = [task |-> "done",
                         chan |-> Append(fallbackValid.chan, IsDir(cfg.StartingDir))]
    /\ UNCHANGED <<env, peer, cs, cacheWrites, pc, cacheVars, shellVars, openVars, cfg, cmd,
                   userHomeDir, gp, tmpFile, pickerRuns, stderr, exitCode>>

\* case valid := <-fallbackValid: if !valid { return error }
FallbackRecv ==
    /\ ~panicked
    /\ pc = "fb_select"
    /\ fallbackValid.chan # <<>>
    /\ fallbackValid' = [fallbackValid EXCEPT !.chan = Tail(@)]
    /\ IF Head(fallbackValid.chan)
       THEN /\ pc' = "fzf_cmd"
            /\ gp' = gp
       ELSE /\ pc' = "getpath_ret"
            /\ gp' = [gp EXCEPT !.err = "fallback STARTING_DIR is also invalid"]
    /\ UNCHANGED <<env, peer, cs, cacheWrites, cacheVars, shellVars, openVars, cfg, cmd, userHomeDir,
                   tmpFile, pickerRuns, stderr, exitCode>>

\* case <-time.After(100 * time.Millisecond): return error
FallbackTimeout ==
    /\ ~panicked
    /\ pc = "fb_select"
    /\ pc' = "getpath_ret"
    /\ gp' = [gp EXCEPT !.err = "timeout checking fallback STARTING_DIR"]
    /\ UNCHANGED <<env, peer, cs, cacheWrites, cacheVars, shellVars, openVars, cfg, cmd, userHomeDir,
                   fallbackValid, tmpFile, pickerRuns, stderr, exitCode>>

\* how cmd.Run() can end: exit 0, exit 130, another nonzero exit, the
\* program was not found, the child was killed at the deadline of ctx (and
\* Run returns its exit status, or ctx.Err(), by the version of Go)
PickerOutcomes ==
    {"ok", "cancel", "fail", "nostart", "killed", "killed_ctxerr"}

\* the program of cmd can be started: /bin/sh always, a name if LookPath
\* finds it
CanStart(name) == IF IsAbs(name) THEN TRUE ELSE LookPath(name) # ""

\* what the run leaves in /tmp/fzf-open: the shell truncates the file before
\* the picker runs and the picker writes its selection on success; a terminal
\* may return before either has happened
TmpAfter(outcome) ==
    IF outcome = "nostart" THEN {tmpFile}
    ELSE IF outcome = "ok"
        THEN {tmpFile} \cup {[exists |-> TRUE, content |-> c] : c \in env.picks}
    ELSE {tmpFile, [exists |-> TRUE, content |-> ""]}

\* the run without the `if err != nil` of line 450: the file is read
\* whatever cmd.Run() returned
PickerRun_ErrIgnored(outcome, tmp) ==
    /\ ~panicked
    /\ pc = "fzf_run"
    /\ (outcome = "nostart") <=> ~CanStart(cmd.name)
    /\ tmp \in TmpAfter(outcome)
    /\ pickerRuns' = pickerRuns + 1
    /\ tmpFile' = tmp
    /\ gp' = [gp EXCEPT !.runErr = outcome]
    /\ stderr' = stderr
    /\ pc' = "read_tmp"
    /\ UNCHANGED <<env, peer, cs, cacheWrites, cacheVars, shellVars, openVars, cfg, cmd, userHomeDir,
                   fallbackValid, exitCode>>

\* err = cmd.Run() and lines 450-459: exit status 130 and every other
\* failure return ("", nil); a failure that is not an exit status is printed
PickerRun(outcome, tmp) ==
    /\ ~panicked
    /\ pc = "fzf_run"
    /\ (outcome = "nostart") <=> ~CanStart(cmd.name)
    /\ tmp \in TmpAfter(outcome)
    /\ pickerRuns' = pickerRuns + 1
    /\ tmpFile' = tmp
    /\ gp' = [gp EXCEPT !.runErr = outcome]
    /\ stderr' = IF outcome \in {"nostart", "killed_ctxerr"}
                 THEN Append(stderr, "Error executing fzf command")
                 ELSE stderr
    /\ pc' = IF outcome = "ok" THEN "read_tmp" ELSE "getpath_ret"
    /\ UNCHANGED <<env, peer, cs, cacheWrites, cacheVars, shellVars, openVars, cfg, cmd, userHomeDir,
                   fallbackValid, exitCode>>

\* lines 462-499 without the `if selectedRelativePath == ""` of line 478
ReadTmp_NoEmptyCheck ==
    /\ ~panicked
    /\ pc = "read_tmp"
    /\ tmpFile' = NoTmpFile
    /\ pc' = "getpath_ret"
    /\ LET rel == TrimSpace(tmpFile.content)
           joined == Join(cfg.StartingDir, rel)
           absolutePath == IF IsAbs(joined) THEN joined ELSE Abs(joined)
       IN  IF ~tmpFile.exists
           THEN UNCHANGED <<gp, stderr>>
           ELSE IF ~Exists(absolutePath)
           THEN /\ stderr' = Append(stderr, "Warning: Constructed path does not exist")
                /\ gp' = gp
           ELSE /\ gp' = [gp EXCEPT !.selectedPath = absolutePath]
                /\ stderr' = stderr
    /\ UNCHANGED <<env, peer, cs, cacheWrites, cacheVars, shellVars, openVars, cfg, cmd, userHomeDir,
                   fallbackValid, pickerRuns, exitCode>>

\* lines 462-499: read and remove the file; a missing file, an empty
\* selection and a path that does not exist return ("", nil); otherwise the
\* absolute path of the selection is returned
ReadTmp ==
    /\ ~panicked
    /\ pc = "read_tmp"
    /\ tmpFile' = NoTmpFile
    /\ pc' = "getpath_ret"
    /\ LET rel == TrimSpace(tmpFile.content)
           joined == Join(cfg.StartingDir, rel)
           absolutePath == IF IsAbs(joined) THEN joined ELSE Abs(joined)
       IN  IF ~tmpFile.exists \/ rel = ""
           THEN UNCHANGED <<gp, stderr>>
           ELSE IF ~Exists(absolutePath)
           THEN /\ stderr' = Append(stderr, "Warning: Constructed path does not exist")
                /\ gp' = gp
           ELSE /\ gp' = [gp EXCEPT !.selectedPath = absolutePath]
                /\ stderr' = stderr
    /\ UNCHANGED <<env, peer, cs, cacheWrites, cacheVars, shellVars, openVars, cfg, cmd, userHomeDir,
                   fallbackValid, pickerRuns, exitCode>>

\* waitForUserIfNoAutoClose(cfg); os.Exit(code): with -k the process first
\* waits for a line on standard input
ExitVia(code) ==
    IF cfg.NoAutoClose
    THEN /\ pc' = "wait_enter"
         /\ gp' = [gp EXCEPT !.exit = code]
         /\ exitCode' = exitCode
    ELSE /\ pc' = "exited"
         /\ gp' = gp
         /\ exitCode' = code

\* main, lines 265-276: an error or an empty path from getPathViaFZF ends the
\* process with status 0; a path is handed to openFileWithConfiguredApp
MainGotPath ==
    /\ ~panicked
    /\ pc = "getpath_ret"
    /\ IF gp.err # "" \/ gp.selectedPath = ""
       THEN /\ ExitVia(0)
            /\ op' = op
       ELSE /\ pc' = "main_open"
            /\ op' = OpenCall(gp.selectedPath)
            /\ UNCHANGED <<gp, exitCode>>
    /\ UNCHANGED <<env, peer, cs, cacheWrites, cacheVars, shellVars, cfg, cmd, userHomeDir,
                   fallbackValid, tmpFile, pickerRuns, stderr, lap, procs,
                   launchLog>>

\* main, lines 276-281: an error from openFileWithConfiguredApp ends the
\* process with status 1, success with status 0
MainOpened ==
    /\ ~panicked
    /\ pc = "main_open"
    /\ op.pc = "ret"
    /\ ExitVia(IF op.err # "" THEN 1 ELSE 0)
    /\ UNCHANGED <<env, peer, cs, cacheWrites, cacheVars, shellVars, openVars, cfg, cmd, userHomeDir,
                   fallbackValid, tmpFile, pickerRuns, stderr>>

\* fmt.Scanln() returns
MainEnter ==
    /\ ~panicked
    /\ pc = "wait_enter"
    /\ pc' = "exited"
    /\ exitCode' = gp.exit
    /\ UNCHANGED <<env, peer, cs, cacheWrites, cacheVars, shellVars, openVars, cfg, cmd, userHomeDir,
                   gp, fallbackValid, tmpFile, pickerRuns, stderr>>

-----------------------------------------------------------------------------
(* SpecCache: the two caches under a caller that resolves command names    *)
(* and queries MIME types repeatedly while the pre-warm sweep runs.        *)

\* the command names the caller resolves: one the sweep pre-warms too, a
\* shell built-in and an absolute path
DriverNames == {"xdg-mime", "cd", "/opt/bin/eog"}

\* the files the caller queries: one with a shortcut extension (in upper
\* case), and two that need xdg-mime
DriverPaths == {"/h/Notes.TXT", "/h/a.bin", "/h/blank"}

\* what `xdg-mime query filetype` prints for each file
ToolOutput ==
    [p \in DriverPaths |->
        IF p = "/h/a.bin" THEN " application/octet-stream \r\n"
        ELSE IF p = "/h/blank" THEN "\n"
        ELSE "text/plain\n"]

EmptyCache == [k \in {} |-> ""]

\* the Config of initializeAndParseFlags when no flag is given
DefaultCfg ==
    [Terminal |-> defaultConfig.Terminal, StartingDir |-> defaultConfig.StartingDir,
     SpawnTerm |-> FALSE, NoAutoClose |-> FALSE, UseShellIC |-> TRUE]

InitCache ==
    /\ env \in [installed : SUBSET PrewarmCommands,
                existing : SUBSET {"/opt/bin/eog"},
                mimeOut : {ToolOutput},
                dirs : {{}},
                shellVar : {"/bin/zsh"}]
    /\ pc = "driver"
    /\ ShellInit
    /\ OpenInit
    /\ cfg = DefaultCfg
    /\ cmd = NoCmd
    /\ RunInit
    /\ pathCache = EmptyCache
    /\ cacheWrites = NoWrites
    /\ cs = {}
    /\ peer = PeerIdle
    /\ mimeCache = EmptyCache
    /\ clp = [t \in Threads |-> CLPIdle]
    /\ gmt = [t \in Threads |-> GMIdle]
    /\ orphans = 0
    /\ pw = PWStart
    /\ callLog = <<>>

DriverCallLookPath(name) ==
    /\ pc = "driver"
    /\ Len(callLog) < MaxCalls
    /\ pc' = "in_cachedLookPath"
    /\ clp' = [clp EXCEPT !["main"] = CLPCall(name)]
    /\ UNCHANGED <<env, peer, cs, cacheWrites, shellVars, mainVars, openVars, pathCache, mimeCache,
                   gmt, orphans, pw, callLog>>

DriverRetLookPath ==
    /\ pc = "in_cachedLookPath"
    /\ clp["main"].pc = "ret"
    /\ callLog' = Append(callLog,
            [fn |-> "cachedLookPath", arg |-> clp["main"].name,
             ret |-> clp["main"].path, err |-> clp["main"].err,
             cached |-> clp["main"].err = "",
             external |-> clp["main"].searched])
    /\ clp' = [clp EXCEPT !["main"] = CLPIdle]
    /\ pc' = "driver"
    /\ UNCHANGED <<env, peer, cs, cacheWrites, shellVars, mainVars, openVars, pathCache, mimeCache,
                   gmt, orphans, pw>>

DriverCallMime(path) ==
    /\ pc = "driver"
    /\ Len(callLog) < MaxCalls
    /\ pc' = "in_getMimeType"
    /\ gmt' = [gmt EXCEPT !["main"] = GMCall(path)]
    /\ UNCHANGED <<env, peer, cs, cacheWrites, shellVars, mainVars, openVars, pathCache, mimeCache,
                   clp, orphans, pw, callLog>>

DriverRetMime ==
    /\ pc = "in_getMimeType"
    /\ gmt["main"].pc = "ret"
    /\ callLog' = Append(callLog,
            [fn |-> "getMimeType", arg |-> gmt["main"].path,
             ret |-> gmt["main"].mime, err |-> "",
             cached |-> gmt["main"].cached,
             external |-> gmt["main"].ranTool])
    /\ gmt' = [gmt EXCEPT !["main"] = GMIdle]
    /\ pc' = "driver"
    /\ UNCHANGED <<env, peer, cs, cacheWrites, shellVars, mainVars, openVars, pathCache, mimeCache,
                   clp, orphans, pw>>

NextCache ==
    \/ \E name \in DriverNames : DriverCallLookPath(name)
    \/ DriverRetLookPath
    \/ \E path \in DriverPaths : DriverCallMime(path)
    \/ DriverRetMime
    \/ cachedLookPath("main")
    \/ getMimeType("main")
    \/ OrphanFinish
    \/ Prewarm

SpecCache == InitCache /\ [][NextCache]_vars

\* the pairs (earlier call, later call) of one function on one argument
CallPairs(fn) ==
    {ij \in (1..Len(callLog)) \X (1..Len(callLog)) :
        /\ ij[1] < ij[2]
        /\ callLog[ij[1]].fn = fn
        /\ callLog[ij[2]].fn = fn
        /\ callLog[ij[1]].arg = callLog[ij[2]].arg}

\* C1 as stated: for every command name, a second cachedLookPath(name)
\* returns what the first returned and performs no executable search.
C1_AsStated ==
    \A ij \in CallPairs("cachedLookPath") :
        /\ callLog[ij[2]].ret = callLog[ij[1]].ret
        /\ callLog[ij[2]].err = callLog[ij[1]].err
        /\ ~callLog[ij[2]].external

\* C1 amended: when a cachedLookPath(name) has returned a path, every later
\* cachedLookPath(name) returns that same path, without an error and without
\* an executable search (exec.LookPath or os.Stat).
C1_SecondLookupHits ==
    \A ij \in CallPairs("cachedLookPath") :
        callLog[ij[1]].err = "" =>
            /\ callLog[ij[2]].err = ""
            /\ callLog[ij[2]].ret = callLog[ij[1]].ret
            /\ ~callLog[ij[2]].external

\* a name the first call had to search for and found is resolved again
C1_Witness ==
    \E ij \in CallPairs("cachedLookPath") :
        /\ callLog[ij[1]].err = ""
        /\ callLog[ij[1]].external
        /\ callLog[ij[2]].ret = callLog[ij[1]].ret

\* C2 as stated: for every file path, a second getMimeType(path) returns the
\* value the first returned and does not run xdg-mime.
C2_AsStated ==
    \A ij \in CallPairs("getMimeType") :
        /\ callLog[ij[2]].ret = callLog[ij[1]].ret
        /\ ~callLog[ij[2]].external


\* C2 amended: when a getMimeType(path) has found or stored the value of path
\* in the MIME cache (a cache hit, the extension shortcut, a successful
\* xdg-mime run), every later getMimeType(path) returns that value and does
\* not run xdg-mime.
C2_SecondQueryHits ==
    \A ij \in CallPairs("getMimeType") :
        callLog[ij[1]].cached =>
            /\ callLog[ij[2]].ret = callLog[ij[1]].ret
            /\ callLog[ij[2]].cached
            /\ ~callLog[ij[2]].external

\* a file whose type xdg-mime had to tell is queried again
C2_Witness ==
    \E ij \in CallPairs("getMimeType") :
        /\ callLog[ij[1]].external
        /\ callLog[ij[1]].cached
        /\ callLog[ij[2]].ret = callLog[ij[1]].ret
        /\ callLog[ij[2]].ret = "application/octet-stream"


-----------------------------------------------------------------------------
(* SpecShell: init()'s detection goroutine against the main goroutine      *)
(* building the picker command in getPathViaFZF.                           *)

\* $SHELL: unset, a valid shell, a shell that is not in validShells
ShellEnvValues == {"", "/usr/bin/fish", "/usr/bin/nu"}

InitShell ==
    /\ env \in [installed : SUBSET Candidates,
                existing : {{}},
                mimeOut : {ToolOutput},
                dirs : {{}},
                shellVar : ShellEnvValues]
    /\ pc = "fzf_cmd"
    /\ pathCache = EmptyCache
    /\ cacheWrites = NoWrites
    /\ cs = {}
    /\ peer = PeerIdle
    /\ mimeCache = EmptyCache
    /\ clp = [t \in Threads |-> CLPIdle]
    /\ gmt = [t \in Threads |-> GMIdle]
    /\ orphans = 0
    /\ pw = PWStart
    /\ callLog = <<>>
    /\ ShellInit
    /\ cfg \in [Terminal : {defaultConfig.Terminal}, StartingDir : {"/home/u"},
                SpawnTerm : BOOLEAN, NoAutoClose : {FALSE}, UseShellIC : BOOLEAN]
    /\ cmd = NoCmd
    /\ RunInit
    /\ OpenInit

NextShell ==
    \/ BgOnceDo
    \/ BgOnceReturn
    \/ detectUserShell
    \/ BuildPickerCommand

SpecShell == InitShell /\ [][NextShell]_vars

\* C3: the body of detectUserShell begins at most once, and once the Once is
\* done no step changes ShellToUse.
C3_DetectOnce ==
    /\ [](detectRuns <= 1)
    /\ [][shellOnce = "done" => ShellToUse' = ShellToUse]_vars

\* both the background task and main have called Do, and the body ran once
C3_Witness ==
    /\ onceReturns = 2
    /\ detectRuns = 1
    /\ bg = "end"
    /\ pc = "fzf_term"

\* the command of the spawn-in-terminal interactive branch
IsInteractiveTermCmd == cfg.SpawnTerm /\ cfg.UseShellIC /\ cmd # NoCmd

\* C4: once detection has completed ShellToUse is a member of validShells,
\* and the shell name the spawn-in-terminal interactive branch puts in the
\* terminal command is never empty.
C4_ShellValid ==
    /\ shellOnce = "done" => StringValue(ShellToUse) \in validShells
    /\ IsInteractiveTermCmd => cmd.args[4] # ""

\* main found ShellToUse unset, waited in Do for the background detection,
\* and put its fallback result in the terminal command
C4_Witness ==
    /\ IsInteractiveTermCmd
    /\ det.owner = "bg"
    /\ onceReturns = 2
    /\ cmd.args[4] = "sh"

\* C5: when the wait of detectUserShell times out, ShellToUse becomes "sh",
\* the warning is written, and no candidate success arriving later changes it.
C5_TimeoutFallsBackToSh ==
    det.timedOut =>
        /\ warned
        /\ ShellToUse.len = Len("sh")
        /\ det.pc # "store" => StringValue(ShellToUse) = "sh"

\* a candidate's success arrived after the timeout had chosen sh
C5_Witness ==
    /\ det.timedOut
    /\ det.pc = "over"
    /\ det.resultChan # <<>>
    /\ det.doneCloses = 1
    /\ StringValue(ShellToUse) = "sh"


-----------------------------------------------------------------------------
(* SpecLaunch: launchApp on application commands of every shape.           *)

\* empty, blank, a program with arguments, a missing program, a shell
\* built-in with an argument, an absolute path
LaunchCommands ==
    {"", " \t ", "wps  --show ", "zeditor", "nosuchapp", "echo -n",
     "/opt/bin/eog"}

\* how many launchApp calls the caller makes in one run
MaxLaunches == 2

InitLaunch ==
    /\ env \in [installed : SUBSET {"wps", "zeditor"},
                existing : SUBSET {"/opt/bin/eog"},
                mimeOut : {ToolOutput},
                dirs : {{}},
                shellVar : {"/bin/zsh"}]
    /\ pc = "launcher"
    /\ pathCache = EmptyCache
    /\ cacheWrites = NoWrites
    /\ cs = {}
    /\ peer = PeerIdle
    /\ mimeCache = EmptyCache
    /\ clp = [t \in Threads |-> CLPIdle]
    /\ gmt = [t \in Threads |-> GMIdle]
    /\ orphans = 0
    /\ pw = PWStart
    /\ callLog = <<>>
    /\ ShellInit
    /\ OpenInit
    /\ cfg = DefaultCfg
    /\ cmd = NoCmd
    /\ RunInit

LauncherCall(appCommand) ==
    /\ pc = "launcher"
    /\ Len(launchLog) < MaxLaunches
    /\ pc' = "in_launchApp"
    /\ lap' = [lap EXCEPT !["main"] = LACall(appCommand, "/h/a.bin")]
    /\ UNCHANGED <<env, peer, cs, cacheWrites, shellVars, mainVars, cacheVars, procs, launchLog, op>>

LauncherRet ==
    /\ pc = "in_launchApp"
    /\ lap["main"].pc = "ret"
    /\ launchLog' = LogLaunch("main")
    /\ lap' = [lap EXCEPT !["main"] = LAIdle]
    /\ pc' = "launcher"
    /\ UNCHANGED <<env, peer, cs, cacheWrites, shellVars, mainVars, cacheVars, procs, op>>

NextLaunch ==
    \/ \E appCommand \in LaunchCommands : LauncherCall(appCommand)
    \/ LauncherRet
    \/ launchApp("main")
    \/ cachedLookPath("main")
    \/ OrphanFinish
    \/ \E i \in 1..Len(procs) : ChildExit(i)

SpecLaunch == InitLaunch /\ [][NextLaunch]_vars

\* C9: launchApp returns false and starts no process when the command is
\* empty or blank or its program name does not resolve; it returns true
\* exactly when the name resolved and the process started; the process never
\* panics; and the return after a start is enabled whatever the state of the
\* child: launchApp does not wait for it.
C9_LaunchOutcome ==
    /\ ~panicked
    /\ \A k \in 1..Len(launchLog) :
        /\ (Fields(launchLog[k].appCommand) = <<>> \/ launchLog[k].lookErr # "")
              => (~launchLog[k].ret /\ ChildOf(launchLog[k].id) = {})
        /\ launchLog[k].ret <=>
              /\ Fields(launchLog[k].appCommand) # <<>>
              /\ launchLog[k].lookErr = ""
              /\ Cardinality(ChildOf(launchLog[k].id)) = 1
    /\ \A t \in Threads : lap[t].pc = "started" => ENABLED LAReturn(t)

\* one launch failed on an unresolvable name, another returned true while
\* its child was still running
C9_Witness ==
    \E j, k \in 1..Len(launchLog) :
        /\ launchLog[j].lookErr # ""
        /\ ~launchLog[j].ret
        /\ launchLog[k].ret
        /\ \E i \in ChildOf(launchLog[k].id) :
              /\ procs[i].state = "running"
              /\ procs[i].args = <<"--show", "/h/a.bin">>

-----------------------------------------------------------------------------
(* SpecOpen: one call of openFileWithConfiguredApp on a selected path,     *)
(* over files of every extension class and every answer of xdg-mime.       *)

\* the regular files the caller may have selected
OpenRegularFiles ==
    {"/h/report.PDF", "/h/notes.txt", "/h/main.go", "/h/README", "/h/trailing.",
     "/h/.bashrc", "/h/data.unknownext", "/h/song.ogg", "/h/letter.docx",
     "/h/sheet.csv", "/h/page.html", "/h/pic.jpeg"}

OpenDirs == {"/h/proj"}

\* the selected paths: the regular files, a directory, a path that vanished
OpenFiles == OpenRegularFiles \cup OpenDirs \cup {"/h/missing"}

\* what `xdg-mime query filetype` may print
OpenOutputs ==
    {"text/plain\n", "text/x-python\n", " application/octet-stream \r\n", "\n",
     "image/png\n", "audio/ogg\n", "video/webm\n", "application/pdf\n",
     "application/msword\n", "application/vnd.ms-excel\n", "inode/x-empty\n",
     "application/x-shellscript\n", "application/javascript\n",
     "application/json\n", "application/xml\n", "inode/directory\n"}

\* the programs that are always installed, and those that may be missing
OpenInstalled == {"zathura", "eog", "wps", "vlc", "thorium-browser"}
OpenOptional == {"xdg-mime", "xdg-open", "zeditor"}

InitOpen ==
    /\ env \in [installed : {OpenInstalled \cup S : S \in SUBSET OpenOptional},
                existing : {OpenRegularFiles \cup OpenDirs},
                mimeOut : {[p \in OpenFiles |-> out] : out \in OpenOutputs},
                dirs : {OpenDirs},
                shellVar : {"/bin/zsh"}]
    /\ pc = "opener"
    /\ pathCache = EmptyCache
    /\ cacheWrites = NoWrites
    /\ cs = {}
    /\ peer = PeerIdle
    /\ mimeCache = EmptyCache
    /\ clp = [t \in Threads |-> CLPIdle]
    /\ gmt = [t \in Threads |-> GMIdle]
    /\ orphans = 0
    /\ pw = PWStart
    /\ callLog = <<>>
    /\ ShellInit
    /\ OpenInit
    /\ cfg = DefaultCfg
    /\ cmd = NoCmd
    /\ RunInit

\* openFileWithConfiguredApp(selectedPath)
OpenerCall(filePath) ==
    /\ pc = "opener"
    /\ pc' = "in_open"
    /\ op' = OpenCall(filePath)
    /\ UNCHANGED <<env, peer, cs, cacheWrites, shellVars, mainVars, cacheVars, lap, procs, launchLog>>

\* openFileWithConfiguredApp has returned
OpenerRet ==
    /\ pc = "in_open"
    /\ op.pc = "ret"
    /\ pc' = "opened"
    /\ UNCHANGED <<env, peer, cs, cacheWrites, shellVars, mainVars, cacheVars, openVars>>

\* The steps of getMimeType and cachedLookPath this call can take. The
\* extension shortcut of getMimeType is not among them: every extension it
\* knows is in an extension map, so the call never asks getMimeType about
\* one. Nor are the built-in and absolute-path branches of cachedLookPath:
\* every command of appAssociations is a plain relative name.
NextOpen ==
    \/ \E filePath \in OpenFiles : OpenerCall(filePath)
    \/ OpenerRet
    \/ openFileWithConfiguredApp
    \/ \E t \in Threads : launchApp(t)
    \/ GMRead("main") \/ GMLookup("main") \/ GMResolved("main")
    \/ GMRunOk("main") \/ GMRunFail("main")
    \/ \E t \in Threads :
          \/ CLPRead(t) \/ CLPSpawn(t) \/ CLPWorker(t)
          \/ CLPRecvResult(t) \/ CLPRecvErr(t) \/ CLPTimeout(t)
    \/ OrphanFinish
    \/ \E i \in 1..Len(procs) : ChildExit(i)

SpecOpen == InitOpen /\ [][NextOpen]_vars

\* the call is on a regular file: os.Stat succeeded, IsDir() is false
OnRegularFile == StatOk(op.filePath) /\ op.filePath \notin env.dirs

\* the extension chain of the selection is over
ExtChainDone ==
    /\ OnRegularFile
    /\ op.pc \in {"mime_fallback", "mime_query", "launch", "launching",
                  "fallback", "ret"}

\* the whole selection is over
SelectionDone ==
    /\ OnRegularFile
    /\ op.pc \in {"launch", "launching", "fallback", "ret"}

\* the application the extension tables name for a non-empty extension
TableApp(ext) ==
    IF ext \in {"pdf"} THEN "zathura"
    ELSE IF ext \in extToDocxViewer \cup extToSpreadsheet THEN "wps"
    ELSE IF ext \in extToImageViewer THEN "eog"
    ELSE IF ext \in extToVideoPlayer THEN "vlc"
    ELSE IF ext \in extToWebBrowser THEN "thorium-browser"
    ELSE IF ext \in extToTextEditor THEN "zeditor"
    ELSE ""

\* C6: the selected application is a function of (extension, MIME type),
\* extension first: a non-empty extension of a table selects the table's
\* application whatever xdg-mime would answer (pdf: the PDF viewer); an
\* extension of no table selects by the MIME type alone, and selects nothing
\* when the MIME type matches nothing (unknownext + application/octet-stream);
\* the empty extension with text/plain selects the text editor.
C6_SelectionFunction ==
    SelectionDone =>
        /\ (op.Ext # "" /\ TableApp(op.Ext) # "")
              => op.appToLaunch = TableApp(op.Ext)
        /\ op.Ext = "pdf" => op.appToLaunch = appAssociations.PDFViewer
        /\ TableApp(op.Ext) = ""
              => /\ op.appToLaunch = getAppByMIME(op.MIMEType)
                 /\ op.MIMEType \in {"text/plain", "text/x-python"}
                       => op.appToLaunch = appAssociations.TextEditor
                 /\ op.MIMEType = "audio/ogg"
                       => op.appToLaunch = appAssociations.VideoPlayer
                 /\ op.MIMEType = "application/msword"
                       => op.appToLaunch = appAssociations.DocxViewer
                 /\ op.MIMEType \in {"", "application/octet-stream",
                                     "inode/directory"}
                       => op.appToLaunch = ""
        /\ op.Ext = ""
              => op.appToLaunch = IF op.MIMEType = ""
                                  THEN appAssociations.TextEditor
                                  ELSE getAppByMIME(op.MIMEType)
        /\ (op.Ext = "" /\ op.MIMEType = "text/plain")
              => op.appToLaunch = appAssociations.TextEditor
        /\ (op.Ext = "unknownext" /\ op.MIMEType = "application/octet-stream")
              => op.appToLaunch = ""

\* a .docx file whose MIME answer names another application: the table wins
C6_Witness ==
    /\ SelectionDone
    /\ op.Ext = "docx"
    /\ TrimOutput(env.mimeOut[op.filePath]) = "image/png"
    /\ op.appToLaunch = appAssociations.DocxViewer

\* C7: for a non-empty extension of the text-editor table the text editor is
\* selected and getMimeType is not called: no query is counted, no
\* activation of getMimeType exists and the MIME cache has no entry.
C7_TextExtSkipsMime ==
    (op.pc # "idle" /\ op.Ext # "" /\ op.Ext \in extToTextEditor) =>
        /\ op.mimeQueries = 0
        /\ gmt["main"].pc = "idle"
        /\ op.MIMEType = ""
        /\ op.filePath \notin DOMAIN mimeCache
        /\ ExtChainDone => op.appToLaunch = appAssociations.TextEditor

\* notes.txt has been opened: the text editor selected, no query made
C7_Witness ==
    /\ op.pc = "ret"
    /\ op.Ext = "txt"
    /\ op.appToLaunch = appAssociations.TextEditor
    /\ op.mimeQueries = 0
    /\ \E i \in 1..Len(procs) : procs[i].path = "/usr/bin/zeditor"

\* the MIME types for which the empty extension selects the text editor
EmptyExtTextMime(mimeType) ==
    \/ mimeType = ""
    \/ Len(mimeType) >= 5 /\ SubSeq(mimeType, 1, 5) = "text/"
    \/ mimeType \in {"application/x-shellscript", "application/javascript",
                     "application/json", "application/xml", "inode/x-empty"}

\* C8: for the empty extension the extension chain selects the text editor
\* exactly when the MIME type is empty, starts with text/ or is one of the
\* five listed types; for any other MIME type the chain selects nothing and
\* the selection is getAppByMIME of that type, from the one query made; when
\* that is nothing too, the fallback opener is the only program launchApp is
\* asked to start.
C8_EmptyExtGuard ==
    (OnRegularFile /\ op.Ext = "" /\ op.extRule = "text") =>
        /\ op.pc = "mime_fallback" =>
              /\ EmptyExtTextMime(op.MIMEType)
                    => op.appToLaunch = appAssociations.TextEditor
              /\ ~EmptyExtTextMime(op.MIMEType) => op.appToLaunch = ""
        /\ (SelectionDone /\ ~EmptyExtTextMime(op.MIMEType)) =>
              /\ op.appToLaunch = getAppByMIME(op.MIMEType)
              /\ op.mimeQueries = 1
              /\ op.MIMEType = "application/octet-stream"
                    => op.appToLaunch = ""
              /\ op.appToLaunch = "" =>
                    /\ \A k \in 1..Len(launchLog) :
                          launchLog[k].appCommand = appAssociations.FallbackOpener
                    /\ \A i \in 1..Len(procs) :
                          procs[i].path = LookPath(appAssociations.FallbackOpener)
                    /\ lap["main"].pc # "idle" =>
                          lap["main"].appCommand = appAssociations.FallbackOpener
                    /\ op.pc = "ret" => Len(launchLog) = 1

\* README is application/octet-stream: nothing selected, xdg-open started
C8_Witness ==
    /\ op.pc = "ret"
    /\ op.filePath = "/h/README"
    /\ op.MIMEType = "application/octet-stream"
    /\ op.appToLaunch = ""
    /\ op.err = ""
    /\ Len(procs) = 1
    /\ procs[1].path = "/usr/bin/xdg-open"

-----------------------------------------------------------------------------
(* SpecMain: one run of the program, from main's first line to its exit,   *)
(* with the shell detection of init() running beside it.                   *)

HomeDir == "/home/u"

\* the directories of the machine: the home directory may be missing
DirSets ==
    {{"/home/u", "/home/u/sub", "/data", "/data/sub"}, {"/data", "/data/sub"}, {}}

\* the files of the machine: two in every directory, and /etc/passwd
FilesOf(dirs) ==
    {d \o "/README" : d \in dirs} \cup {d \o "/a.bin" : d \in dirs}
        \cup {"/etc/passwd"}

\* the -d values: the default, below the home directory, a directory, a
\* relative directory, a regular file, a variable naming a missing directory
StartDirs == {"~", "~/sub", "/data", "data", "/etc/passwd", "$PROJ"}

\* what the picker may write into /tmp/fzf-open
PickerWrites == {"README\n", " a.bin\n", "  \n", "gone.txt\n", "sub\n"}

MainPrograms == {"alacritty", "zsh", "xdg-mime", "xdg-open", "zeditor"}

MainEnv(dirs, installed, userOk) ==
    [installed |-> installed,
     existing |-> dirs \cup FilesOf(dirs),
     dirs |-> dirs,
     mimeOut |-> [p \in dirs \cup FilesOf(dirs) |-> "text/plain\n"],
     shellVar |-> "/bin/zsh",
     userOk |-> userOk,
     homeDir |-> HomeDir,
     cwd |-> "/",
     vars |-> [n \in {"PROJ"} |-> "/gone"],
     picks |-> PickerWrites]

InitMain ==
    /\ env \in {MainEnv(dirs, installed, userOk) :
                   dirs \in DirSets, installed \in {MainPrograms, {"xdg-mime"}},
                   userOk \in BOOLEAN}
    /\ pc = "main"
    /\ pathCache = EmptyCache
    /\ cacheWrites = NoWrites
    /\ cs = {}
    /\ peer = PeerIdle
    /\ mimeCache = EmptyCache
    /\ clp = [t \in Threads |-> CLPIdle]
    /\ gmt = [t \in Threads |-> GMIdle]
    /\ orphans = 0
    /\ pw = PWStart
    /\ callLog = <<>>
    /\ ShellInit
    /\ OpenInit
    /\ cfg \in [Terminal : {defaultConfig.Terminal}, StartingDir : StartDirs,
                SpawnTerm : BOOLEAN, NoAutoClose : BOOLEAN, UseShellIC : BOOLEAN]
    /\ cmd = NoCmd
    /\ userHomeDir = IF env.userOk THEN env.homeDir ELSE ""
    /\ gp = GPIdle
    /\ fallbackValid = NoFallbackCheck
    /\ tmpFile \in {NoTmpFile, [exists |-> TRUE, content |-> "README\n"]}
    /\ pickerRuns = 0
    /\ stderr = <<>>
    /\ exitCode = -1

\* $SHELL names a valid shell here, so detectUserShell takes its fast path
NextMain ==
    \/ MainExpand
    \/ GetPathStat
    \/ FallbackCheck
    \/ FallbackRecv
    \/ FallbackTimeout
    \/ BuildPickerCommand
    \/ \E outcome \in PickerOutcomes :
          \E tmp \in TmpAfter(outcome) : PickerRun(outcome, tmp)
    \/ ReadTmp
    \/ MainGotPath
    \/ MainOpened
    \/ MainEnter
    \/ BgOnceDo
    \/ BgOnceReturn
    \/ DetectEnv
    \/ DetectStore
    \/ openFileWithConfiguredApp
    \/ \E t \in Threads : launchApp(t)
    \/ GMRead("main") \/ GMLookup("main") \/ GMResolved("main")
    \/ GMRunOk("main") \/ GMRunFail("main")
    \/ \E t \in Threads :
          \/ CLPRead(t) \/ CLPSpawn(t) \/ CLPWorker(t)
          \/ CLPRecvResult(t) \/ CLPRecvErr(t) \/ CLPTimeout(t)
    \/ OrphanFinish

SpecMain == InitMain /\ [][NextMain]_vars

\* the home directory can be determined and is a directory
HomeValid == env.userOk /\ env.homeDir \in env.dirs

\* an error about the starting directory has been written to stderr
StartDirErrorReported ==
    \E i \in 1..Len(stderr) :
        stderr[i] \notin {"Warning: STARTING_DIR is invalid, falling back"}

\* C10: when the starting directory is invalid and the home directory is
\* invalid too or cannot be determined, the run ends with an error on
\* stderr, without a run of the picker, and with a nonzero exit status.
C10_AsStated ==
    (pc = "exited" /\ gp.fellBack /\ ~HomeValid) =>
        /\ StartDirErrorReported
        /\ pickerRuns = 0
        /\ exitCode # 0

\* main has left through the failure of expandPath, before getPathViaFZF
ExpandFailed ==
    \E i \in 1..Len(stderr) : stderr[i] = "Error expanding Starting Directory path"

\* the process has exited after getPathViaFZF returned
ExitedAfterPicker == pc = "exited" /\ ~ExpandFailed

\* C11: the exit status is 0 when nothing was selected (the picker was
\* cancelled, failed or chose nothing) and when an application was started
\* for the selection; it is 1 when a path was selected and no application, the
\* fallback opener included, was started for it.
C11_AsStated ==
    ExitedAfterPicker =>
        /\ gp.selectedPath = "" => exitCode = 0
        /\ (gp.selectedPath # "" /\ procs # <<>>) => exitCode = 0
        /\ (gp.selectedPath # "" /\ procs = <<>>) => exitCode = 1

-----------------------------------------------------------------------------
(* The cache maps over a run (SpecCache)                                   *)

\* the number of assignments pathCache[key] = ... executed so far
PathWrites(key) ==
    IF <<"path", key>> \in DOMAIN cacheWrites THEN cacheWrites[<<"path", key>>] ELSE 0

PathKeys == {k[2] : k \in {x \in DOMAIN cacheWrites : x[1] = "path"}}

\* C12 as stated: each key of the path cache is written at most once during
\* a run, whoever writes (the pre-warm collector or a cachedLookPath caller).
C12_AsStated == \A key \in PathKeys : PathWrites(key) <= 1

\* C12, amended: a key of the path cache may be written more than once, but
\* a write to a key that already holds a hit stores the value it holds.
C12_RewriteKeepsValue ==
    [][\A key \in DOMAIN pathCache :
          PathWrites(key)' > PathWrites(key) => pathCache'[key] = pathCache[key]]_vars

\* a key the collector and a cachedLookPath caller have both written
C12_Witness ==
    \E key \in DOMAIN pathCache :
        /\ PathWrites(key) = 2
        /\ key \in PrewarmCommands
        /\ pathCache[key] = LookPath(key)

\* every entry of the map is in the next state's map with the same value
Kept(cache, next) == \A k \in DOMAIN cache : k \in DOMAIN next /\ next[k] = cache[k]

\* C13: once a key of the path cache or of the MIME cache holds a value, it
\* holds that value in every later state: no step removes an entry or
\* replaces its value with a different one.
C13_EntriesKept == [][Kept(pathCache, pathCache') /\ Kept(mimeCache, mimeCache')]_vars

\* both maps hold entries, a path key has been assigned a second time and
\* the caller has gone on to finish its calls
C13_Witness ==
    /\ \E key \in DOMAIN pathCache : PathWrites(key) = 2
    /\ mimeCache # EmptyCache
    /\ Len(callLog) = MaxCalls

-----------------------------------------------------------------------------
(* SpecLock: the critical sections of the two maps step by step. Every     *)
(* access of a map is two steps here, the Lock/RLock call that opens the   *)
(* section and the access with the Unlock/RUnlock that closes it, so that  *)
(* sections of different goroutines can be open at the same time.          *)

\* the goroutines that touch the maps: the callers and the sweep's collector
LockUsers == Threads \cup {"collector"}

\* a section of goroutine `by` on the lock of `map`; `locked` tells that the
\* goroutine went through Lock/RLock to open it
Section(by, map, mode) == [by |-> by, map |-> map, mode |-> mode, locked |-> TRUE]

InSection(by, map, mode) == \E c \in cs : c.by = by /\ c.map = map /\ c.mode = mode

\* sync.RWMutex.RLock returns when no writer holds the lock
CanRLock(map) == ~\E c \in cs : c.map = map /\ c.locked /\ c.mode = "w"

\* sync.RWMutex.Lock returns when nobody holds the lock
CanLock(map) == ~\E c \in cs : c.map = map /\ c.locked

\* Unlock / RUnlock
Leave(by, map) == cs' = {c \in cs : ~(c.by = by /\ c.map = map)}

Outside(by) == ~\E c \in cs : c.by = by

\* another goroutine is inside a section of the same map
Racing(by, map) == \E c \in cs : c.map = map /\ c.by # by

\* the map after map[key] = value by goroutine `by`: an assignment that
\* runs while another goroutine accesses the map is a data race, and the
\* entry may or may not be there afterwards
MapAfterWrite(by, map, cache, key, value) ==
    IF Racing(by, map) THEN {CachePut(cache, key, value), cache}
    ELSE {CachePut(cache, key, value)}

\* pathCacheLock.RLock() (788)
CLPRLock(t) ==
    /\ Running
    /\ clp[t].pc = "read"
    /\ Outside(t)
    /\ CanRLock("path")
    /\ cs' = cs \cup {Section(t, "path", "r")}
    /\ UNCHANGED <<env, peer, pc, cacheWrites, cacheVars, shellVars, mainVars, openVars>>

\* a result to store: the name is a built-in, an absolute path that exists,
\* or the search has answered
CLPHasResult(t) ==
    \/ clp[t].pc = "miss" /\ IsBuiltin(clp[t].name)
    \/ clp[t].pc = "miss" /\ ~IsBuiltin(clp[t].name) /\ IsAbs(clp[t].name)
            /\ StatOk(clp[t].name)
    \/ clp[t].pc = "select" /\ clp[t].resultChan # <<>>

\* pathCacheLock.Lock() (798, 807, 831)
CLPLock(t) ==
    /\ Running
    /\ CLPHasResult(t)
    /\ Outside(t)
    /\ CanLock("path")
    /\ cs' = cs \cup {Section(t, "path", "w")}
    /\ UNCHANGED <<env, peer, pc, cacheWrites, cacheVars, shellVars, mainVars, openVars>>

\* an absolute path that does not exist: the error return, no section
CLPAbsMissing(t) ==
    /\ ~StatOk(clp[t].name)
    /\ Outside(t)
    /\ CLPAbs(t)

\* the collector without its Lock and Unlock calls
PrewarmLock_None ==
    /\ Running
    /\ pw.collector = "range"
    /\ pw.resultChan # <<>>
    /\ Outside("collector")
    /\ cs' = cs \cup {[Section("collector", "path", "w") EXCEPT !.locked = FALSE]}
    /\ UNCHANGED <<env, peer, pc, cacheWrites, cacheVars, shellVars, mainVars, openVars>>

\* pathCacheLock.Lock() (171)
PrewarmLock ==
    /\ Running
    /\ pw.collector = "range"
    /\ pw.resultChan # <<>>
    /\ Outside("collector")
    /\ CanLock("path")
    /\ cs' = cs \cup {Section("collector", "path", "w")}
    /\ UNCHANGED <<env, peer, pc, cacheWrites, cacheVars, shellVars, mainVars, openVars>>

\* mimeCacheLock.RLock() (700)
GMRLock(t) ==
    /\ Running
    /\ gmt[t].pc = "read"
    /\ Outside(t)
    /\ CanRLock("mime")
    /\ cs' = cs \cup {Section(t, "mime", "r")}
    /\ UNCHANGED <<env, peer, pc, cacheWrites, cacheVars, shellVars, mainVars, openVars>>

\* a MIME type to store: the extension shortcut applies, or xdg-mime is
\* about to answer
GMHasResult(t) ==
    \/ gmt[t].pc = "ext" /\ Ext(gmt[t].path) # ""
            /\ ShortcutMime(ToLower(Ext(gmt[t].path))) # "none"
    \/ gmt[t].pc = "run"

\* mimeCacheLock.Lock() (714 ... 741, 778)
GMLock(t) ==
    /\ Running
    /\ GMHasResult(t)
    /\ Outside(t)
    /\ CanLock("mime")
    /\ cs' = cs \cup {Section(t, "mime", "w")}
    /\ UNCHANGED <<env, peer, pc, cacheWrites, cacheVars, shellVars, mainVars, openVars>>

\* path, ok := pathCache[name]; pathCacheLock.RUnlock() (789-794)
CLPReadUnlock(t) ==
    /\ Running
    /\ InSection(t, "path", "r")
    /\ Leave(t, "path")
    /\ clp[t].pc = "read"
    /\ IF clp[t].name \in DOMAIN pathCache
       THEN clp' = [clp EXCEPT ![t].pc = "ret", ![t].path = pathCache[clp[t].name]]
       ELSE clp' = [clp EXCEPT ![t].pc = "miss"]
    /\ UNCHANGED <<env, peer, cacheWrites, pc, shellVars, mainVars, openVars, pathCache,
                   mimeCache, gmt, orphans, pw, callLog>>


\* pathCache[name] = name; pathCacheLock.Unlock() (799-801)
CLPBuiltinUnlock(t) ==
    /\ Running
    /\ InSection(t, "path", "w")
    /\ Leave(t, "path")
    /\ clp[t].pc = "miss"
    /\ IsBuiltin(clp[t].name)
    /\ Assigned("path", clp[t].name)
    /\ pathCache' \in MapAfterWrite(t, "path", pathCache, clp[t].name, clp[t].name)
    /\ clp' = [clp EXCEPT ![t].pc = "ret", ![t].path = clp[t].name]
    /\ UNCHANGED <<env, peer, pc, shellVars, mainVars, openVars, mimeCache, gmt,
                   orphans, pw, callLog>>


\* pathCache[name] = name; pathCacheLock.Unlock() (808-810)
CLPAbsUnlock(t) ==
    /\ Running
    /\ InSection(t, "path", "w")
    /\ Leave(t, "path")
    /\ clp[t].pc = "miss"
    /\ ~IsBuiltin(clp[t].name)
    /\ IsAbs(clp[t].name)
    /\ IF StatOk(clp[t].name)
       THEN /\ pathCache' \in MapAfterWrite(t, "path", pathCache, clp[t].name, clp[t].name)
            /\ Assigned("path", clp[t].name)
            /\ clp' = [clp EXCEPT ![t].pc = "ret", ![t].path = clp[t].name,
                                  ![t].searched = TRUE]
       ELSE /\ pathCache' = pathCache
            /\ cacheWrites' = cacheWrites
            /\ clp' = [clp EXCEPT ![t].pc = "ret", ![t].err = "notfound",
                                  ![t].searched = TRUE]
    /\ UNCHANGED <<env, peer, pc, shellVars, mainVars, openVars, mimeCache, gmt,
                   orphans, pw, callLog>>


\* pathCache[name] = path; pathCacheLock.Unlock() (832-834)
CLPRecvUnlock(t) ==
    /\ Running
    /\ InSection(t, "path", "w")
    /\ Leave(t, "path")
    /\ clp[t].pc = "select"
    /\ clp[t].resultChan # <<>>
    /\ Assigned("path", clp[t].name)
    /\ pathCache' \in MapAfterWrite(t, "path", pathCache, clp[t].name, Head(clp[t].resultChan))
    /\ clp' = [clp EXCEPT ![t].pc = "ret", ![t].path = Head(clp[t].resultChan),
                          ![t].resultChan = Tail(@)]
    /\ UNCHANGED <<env, peer, pc, shellVars, mainVars, openVars, mimeCache, gmt,
                   orphans, pw, callLog>>


\* pathCache[result.cmd] = result.path; pathCacheLock.Unlock() (172-173)
PrewarmUnlock ==
    /\ Running
    /\ InSection("collector", "path", "w")
    /\ Leave("collector", "path")
    /\ pw.collector = "range"
    /\ pw.resultChan # <<>>
    /\ Assigned("path", Head(pw.resultChan).cmd)
    /\ pathCache' \in MapAfterWrite("collector", "path", pathCache, Head(pw.resultChan).cmd,
                             Head(pw.resultChan).path)
    /\ pw' = [pw EXCEPT !.resultChan = Tail(@)]
    /\ UNCHANGED <<env, peer, pc, shellVars, mainVars, openVars, mimeCache, clp,
                   gmt, orphans, callLog>>


\* cachedMime, ok := mimeCache[filePath]; mimeCacheLock.RUnlock() (701-705)
GMReadUnlock(t) ==
    /\ Running
    /\ InSection(t, "mime", "r")
    /\ Leave(t, "mime")
    /\ gmt[t].pc = "read"
    /\ IF gmt[t].path \in DOMAIN mimeCache
       THEN gmt' = [gmt EXCEPT ![t].pc = "ret", ![t].cached = TRUE,
                               ![t].mime = mimeCache[gmt[t].path]]
       ELSE gmt' = [gmt EXCEPT ![t].pc = "ext"]
    /\ UNCHANGED <<env, peer, cacheWrites, pc, shellVars, mainVars, openVars, pathCache,
                   mimeCache, clp, orphans, pw, callLog>>


\* mimeCache[filePath] = ...; mimeCacheLock.Unlock() (715-743)
GMShortcutUnlock(t) ==
    /\ Running
    /\ InSection(t, "mime", "w")
    /\ Leave(t, "mime")
    /\ gmt[t].pc = "ext"
    /\ Ext(gmt[t].path) # ""
    /\ ShortcutMime(ToLower(Ext(gmt[t].path))) # "none"
    /\ Assigned("mime", gmt[t].path)
    /\ mimeCache' \in MapAfterWrite(t, "mime", mimeCache, gmt[t].path,
                             ShortcutMime(ToLower(Ext(gmt[t].path))))
    /\ gmt' = [gmt EXCEPT ![t].pc = "ret", ![t].cached = TRUE,
                          ![t].mime = ShortcutMime(ToLower(Ext(gmt[t].path)))]
    /\ UNCHANGED <<env, peer, pc, shellVars, mainVars, openVars, pathCache, clp,
                   orphans, pw, callLog>>


\* mimeCache[filePath] = mimeType; mimeCacheLock.Unlock() (779-782)
GMRunUnlock(t) ==
    /\ Running
    /\ InSection(t, "mime", "w")
    /\ Leave(t, "mime")
    /\ gmt[t].pc = "run"
    /\ Assigned("mime", gmt[t].path)
    /\ mimeCache' \in MapAfterWrite(t, "mime", mimeCache, gmt[t].path,
                             TrimOutput(env.mimeOut[gmt[t].path]))
    /\ gmt' = [gmt EXCEPT ![t].pc = "ret", ![t].ranTool = TRUE,
                          ![t].cached = TRUE,
                          ![t].mime = TrimOutput(env.mimeOut[gmt[t].path])]
    /\ UNCHANGED <<env, peer, pc, shellVars, mainVars, openVars, pathCache, clp,
                   orphans, pw, callLog>>


\* case <-time.After(...), taken before the result case (837-838)
CLPTimeoutUnlocked(t) ==
    /\ Outside(t)
    /\ CLPTimeout(t)

\* cmd.Output() fails: no section is opened (757-761)
GMRunFailUnlocked(t) ==
    /\ Outside(t)
    /\ GMRunFail(t)

\* the calls the two goroutines have started
LockCalls ==
    Len(callLog) + Cardinality({t \in Threads : clp[t].pc # "idle" \/ gmt[t].pc # "idle"})

\* the files the callers query: one with a shortcut extension and one that
\* needs xdg-mime
LockPaths == {"/h/Notes.TXT", "/h/a.bin"}

InitLock ==
    /\ env \in [installed : {{}, PrewarmCommands},
                existing : SUBSET {"/opt/bin/eog"},
                mimeOut : {ToolOutput},
                dirs : {{}},
                shellVar : {"/bin/zsh"}]
    /\ pc = "locks"
    /\ ShellInit
    /\ OpenInit
    /\ cfg = DefaultCfg
    /\ cmd = NoCmd
    /\ RunInit
    /\ pathCache = EmptyCache
    /\ cacheWrites = NoWrites
    /\ cs = {}
    /\ peer = PeerIdle
    /\ mimeCache = EmptyCache
    /\ clp = [t \in Threads |-> CLPIdle]
    /\ gmt = [t \in Threads |-> GMIdle]
    /\ orphans = 0
    /\ pw = PWStart
    /\ callLog = <<>>

\* a goroutine calls cachedLookPath(name)
LockCallLookPath(t, name) ==
    /\ clp[t].pc = "idle"
    /\ gmt[t].pc = "idle"
    /\ LockCalls < MaxCalls
    /\ clp' = [clp EXCEPT ![t] = CLPCall(name)]
    /\ UNCHANGED <<env, peer, cs, cacheWrites, pc, shellVars, mainVars, openVars, pathCache,
                   mimeCache, gmt, orphans, pw, callLog>>

\* main calls getMimeType(path) (617, 636); the goroutine of line 569 only
\* runs launchApp and so only ever calls cachedLookPath
LockCallMime(path) ==
    /\ clp["main"].pc = "idle"
    /\ gmt["main"].pc = "idle"
    /\ LockCalls < MaxCalls
    /\ gmt' = [gmt EXCEPT !["main"] = GMCall(path)]
    /\ UNCHANGED <<env, peer, cs, cacheWrites, pc, shellVars, mainVars, openVars, pathCache,
                   mimeCache, clp, orphans, pw, callLog>>

\* the goroutine's cachedLookPath call returns to it
LockRetLookPath(t) ==
    /\ gmt[t].pc = "idle"
    /\ clp[t].pc = "ret"
    /\ callLog' = Append(callLog,
            [fn |-> "cachedLookPath", arg |-> clp[t].name,
             ret |-> clp[t].path, err |-> clp[t].err,
             cached |-> clp[t].err = "", external |-> clp[t].searched])
    /\ clp' = [clp EXCEPT ![t] = CLPIdle]
    /\ UNCHANGED <<env, peer, cs, cacheWrites, pc, shellVars, mainVars, openVars, pathCache,
                   mimeCache, gmt, orphans, pw>>

\* the getMimeType call returns to its caller
LockRetMime(t) ==
    /\ gmt[t].pc = "ret"
    /\ callLog' = Append(callLog,
            [fn |-> "getMimeType", arg |-> gmt[t].path,
             ret |-> gmt[t].mime, err |-> "",
             cached |-> gmt[t].cached, external |-> gmt[t].ranTool])
    /\ gmt' = [gmt EXCEPT ![t] = GMIdle]
    /\ UNCHANGED <<env, peer, cs, cacheWrites, pc, shellVars, mainVars, openVars, pathCache,
                   mimeCache, clp, orphans, pw>>

NextLock ==
    \/ \E t \in Threads, name \in DriverNames : LockCallLookPath(t, name)
    \/ \E path \in LockPaths : LockCallMime(path)
    \/ \E t \in Threads : LockRetLookPath(t)
    \/ \E t \in Threads : LockRetMime(t)
    \/ \E t \in Threads : CLPRLock(t)
    \/ \E t \in Threads : CLPReadUnlock(t)
    \/ \E t \in Threads : CLPLock(t)
    \/ \E t \in Threads : CLPBuiltinUnlock(t)
    \/ \E t \in Threads : CLPAbsUnlock(t)
    \/ \E t \in Threads : CLPAbsMissing(t)
    \/ \E t \in Threads : CLPSpawn(t)
    \/ \E t \in Threads : CLPWorker(t)
    \/ \E t \in Threads : CLPRecvUnlock(t)
    \/ \E t \in Threads : CLPRecvErr(t)
    \/ \E t \in Threads : CLPTimeoutUnlocked(t)
    \/ OrphanFinish
    \/ \E t \in Threads : GMRLock(t)
    \/ \E t \in Threads : GMReadUnlock(t)
    \/ \E t \in Threads : GMLock(t)
    \/ \E t \in Threads : GMShortcutUnlock(t)
    \/ \E t \in Threads : GMLookup(t)
    \/ \E t \in Threads : GMResolved(t)
    \/ \E t \in Threads : GMRunUnlock(t)
    \/ \E t \in Threads : GMRunFailUnlocked(t)
    \/ \E c \in PrewarmCommands : PrewarmLookup(c)
    \/ PrewarmClose
    \/ PrewarmLock
    \/ PrewarmUnlock
    \/ PrewarmEnd

SpecLock == InitLock /\ [][NextLock]_vars

\* no access of a map by one goroutine runs during a write of that map by
\* another: sections open at the same time on one map are all reads
NoOverlap ==
    \A c, d \in cs : (c # d /\ c.map = d.map) => (c.mode = "r" /\ d.mode = "r")

\* every resolution that succeeded is in its map: what a caller is about to
\* return, and what the sweep found once the collector is through
NoWriteLost ==
    /\ \A t \in Threads :
          (clp[t].pc = "ret" /\ clp[t].err = "") =>
              /\ clp[t].name \in DOMAIN pathCache
              /\ pathCache[clp[t].name] = clp[t].path
    /\ \A t \in Threads :
          (gmt[t].pc = "ret" /\ gmt[t].cached) =>
              /\ gmt[t].path \in DOMAIN mimeCache
              /\ mimeCache[gmt[t].path] = gmt[t].mime
    /\ pw.collector = "done" =>
          \A c \in PrewarmCommands :
              LookPath(c) # "" => (c \in DOMAIN pathCache /\ pathCache[c] = LookPath(c))

\* C14: in every interleaving of the pre-warm collector, the cachedLookPath
\* callers and the getMimeType callers, a write of a cache map overlaps no
\* other read or write of that map (only readers overlap), and no successful
\* resolution's write is lost.
C14_LockDiscipline == NoOverlap /\ NoWriteLost

\* two callers read the path cache at the same time while the collector,
\* with a result to store, is kept out
C14_Witness ==
    /\ \A t \in Threads : InSection(t, "path", "r")
    /\ pw.collector = "range" /\ pw.resultChan # <<>>
    /\ ~CanLock("path")

-----------------------------------------------------------------------------
(* The launches of one openFileWithConfiguredApp call (SpecOpen)           *)

\* the launchApp calls that have returned are: nothing yet, or the selected
\* application's failed launch
BeforeFallback ==
    \/ op.appToLaunch = "" /\ launchLog = <<>>
    \/ /\ op.appToLaunch # ""
       /\ Len(launchLog) = 1
       /\ launchLog[1].appCommand = op.appToLaunch
       /\ ~launchLog[1].ret

\* the fallback opener's launchApp call is under way
FallbackUnderWay ==
    lap["main"].pc # "idle" /\ lap["main"].appCommand = appAssociations.FallbackOpener

\* C15: for a regular file the fallback opener is launched only after the
\* selected application (if any) failed to start or when none was selected;
\* there are at most two launch attempts, never two of the same application;
\* and the call returns an error exactly when the fallback opener's launch
\* failed.
C15_FallbackChain ==
    OnRegularFile =>
        /\ FallbackUnderWay => BeforeFallback
        /\ Len(launchLog) <= 2
        /\ \A i, j \in 1..Len(launchLog) :
              i # j => launchLog[i].appCommand # launchLog[j].appCommand
        /\ op.pc = "ret" =>
              /\ launchLog # <<>>
              /\ (op.err # "") <=>
                    /\ launchLog[Len(launchLog)].appCommand = appAssociations.FallbackOpener
                    /\ ~launchLog[Len(launchLog)].ret
              /\ launchLog[Len(launchLog)].appCommand # appAssociations.FallbackOpener =>
                    /\ Len(launchLog) = 1
                    /\ launchLog[1].appCommand = op.appToLaunch
                    /\ launchLog[1].ret

\* a call on a regular file that tried the selected application, then the
\* fallback opener, and returned the error
C15_Witness ==
    /\ OnRegularFile
    /\ op.pc = "ret"
    /\ op.err # ""
    /\ Len(launchLog) = 2
    /\ launchLog[1].appCommand = op.appToLaunch

-----------------------------------------------------------------------------
(* The deadline of main's context (SpecMainFair)                           *)

\* SpecMain with the scheduler's guarantee that main, once getPathViaFZF has
\* returned, runs on; nothing makes the user answer fmt.Scanln
SpecMainFair == SpecMain /\ WF_vars(MainGotPath)

\* the picker was still running at the deadline of ctx and was killed
PickerKilled == gp.runErr \in {"killed", "killed_ctxerr"}

\* nothing was selected and nothing has been launched
NothingOpened ==
    /\ gp.selectedPath = "" /\ gp.err = ""
    /\ op = OpenIdle /\ procs = <<>> /\ launchLog = <<>>
    /\ \A t \in Threads : lap[t] = LAIdle
    /\ pc = "exited" => exitCode = 0

-----------------------------------------------------------------------------
(* The picker's output file (SpecMain)                                     *)

\* /tmp/fzf-open is absent or holds nothing but white space
NothingWritten == ~tmpFile.exists \/ TrimSpace(tmpFile.content) = ""

\* the picker exited with status 0 and left nothing in its output file
PickedNothing == gp.runErr = "ok" /\ pc = "read_tmp" /\ NothingWritten

\* getPathViaFZF read its file after such a run: history kept in the state
\* is the empty path without an error and without a message
ReturnedNothing == gp.selectedPath = "" /\ gp.err = ""

\* C17: after the picker exits successfully, an output file that is absent
\* or holds only white space makes getPathViaFZF return the empty path
\* with no error; an empty path from a successful picker launches no
\* application and ends the process with status 0.
C17_NothingSelected ==
    /\ [][PickedNothing => (ReturnedNothing' /\ stderr' = stderr)]_vars
    /\ []((gp.runErr = "ok" /\ pc \notin {"read_tmp"} /\ gp.selectedPath = "") =>
            /\ op = OpenIdle /\ procs = <<>> /\ launchLog = <<>>
            /\ pc = "exited" => exitCode = 0)

\* the picker exited with status 0 and wrote only white space; the process
\* has exited with status 0 and nothing on stderr
C17_Witness ==
    /\ gp.runErr = "ok"
    /\ pc = "exited"
    /\ exitCode = 0
    /\ gp.selectedPath = ""
    /\ stderr = <<>>
    /\ cfg.StartingDir = "/data"

-----------------------------------------------------------------------------
(* The bounded wait of cachedLookPath (SpecCache)                          *)

\* goroutine t is in the select of lines 829-839: the name was a relative
\* one that missed the cache, and the search goroutine has been started
InSelect(t) == clp[t].pc = "select"

\* the select of goroutine t ends with the timeout case
TimesOut(t) == InSelect(t) /\ clp'[t].pc = "ret" /\ clp'[t].err = "timeout"

\* the select of goroutine t ends with the search's own error
SearchFails(t) == InSelect(t) /\ clp'[t].pc = "ret" /\ clp[t].errChan # <<>>
                      /\ clp'[t].err = Head(clp[t].errChan)

\* C18: on a miss for a relative name cachedLookPath never has to wait for
\* the search, the timeout case can be taken whatever the search is doing;
\* taking it returns an error that is not the search's not-found error and
\* leaves the path cache as it is, and a search that ends after the
\* timeout writes nothing to the cache.
C18_BoundedWait ==
    /\ [](\A t \in Threads : InSelect(t) => ENABLED CLPTimeout(t))
    /\ [][\A t \in Threads :
            /\ TimesOut(t) => (clp'[t].path = "" /\ pathCache' = pathCache)
            /\ SearchFails(t) => clp'[t].err # "timeout"]_vars
    /\ [][orphans' < orphans => pathCache' = pathCache]_vars

\* a call for an installed command has returned the timeout error while
\* its search is still running, and the cache has no entry for the name
C18_Witness ==
    /\ callLog # <<>>
    /\ callLog[1].fn = "cachedLookPath"
    /\ callLog[1].err = "timeout"
    /\ callLog[1].arg \in env.installed
    /\ callLog[1].arg \notin DOMAIN pathCache
    /\ orphans > 0

-----------------------------------------------------------------------------
(* getMimeType's failures (SpecOpen)                                       *)

\* getMimeType of goroutine t returns because xdg-mime could not be
\* resolved (line 750-752: not found, or the lookup timed out)
ToolUnresolved(t) ==
    gmt[t].pc = "lookup" /\ clp[t].pc = "ret" /\ clp[t].err # "" /\ gmt'[t].pc = "ret"

\* getMimeType of goroutine t returns because the run of xdg-mime failed
\* (line 759-761: the 500 ms deadline, a nonzero exit)
ToolFailed(t) == gmt[t].pc = "run" /\ gmt'[t].pc = "ret" /\ ~gmt'[t].cached

\* openFileWithConfiguredApp takes getMimeType's answer
AnswerTaken ==
    op.pc \in {"ext_mime", "mime_query"} /\ gmt["main"].pc = "ret" /\ op'.pc # op.pc

\* C19: when xdg-mime cannot be resolved, times out or exits nonzero,
\* getMimeType returns the empty string and leaves the MIME cache as it
\* is; the caller takes the answer and goes on with its chain, and on a
\* regular file it returns only after a launch attempt.
C19_MimeFailureNotFatal ==
    /\ [][\A t \in Threads :
            (ToolUnresolved(t) \/ ToolFailed(t)) =>
                (gmt'[t].mime = "" /\ mimeCache' = mimeCache)]_vars
    /\ [][AnswerTaken =>
            /\ op'.MIMEType = gmt["main"].mime
            /\ op'.pc \in {"mime_fallback", "launch"}
            /\ op'.err = ""]_vars
    /\ []((OnRegularFile /\ op.pc = "ret" /\ op.MIMEType = "") => launchLog # <<>>)

\* a call whose MIME query ran xdg-mime without success, and which went on
\* to start the fallback opener
C19_Witness ==
    /\ OnRegularFile
    /\ op.pc = "ret"
    /\ op.mimeQueries > 0
    /\ op.MIMEType = ""
    /\ op.filePath \notin DOMAIN mimeCache
    /\ "xdg-mime" \in DOMAIN pathCache
    /\ op.err = ""
    /\ launchLog # <<>>

-----------------------------------------------------------------------------
(* ShellToUse over a run (SpecShell)                                       *)

\* the shell name a reader finds in defaultConfig.ShellToUse; "" is unset
ShellName == StringValue(ShellToUse)

\* C20: ShellToUse changes value at most once in a run, from unset to a
\* shell name; once it is set no step changes it, whether a candidate's
\* result arrives late or detection is requested again.
C20_SetOnce ==
    /\ [][ShellName # "" => ShellToUse' = ShellToUse]_vars
    /\ [][ShellName' # ShellName => (ShellName = "" /\ ShellName' \in validShells)]_vars

\* ShellToUse is set from a candidate's result, a second candidate's result
\* has arrived since, and both requests for detection have returned
C20_Witness ==
    /\ ShellName \in validShells
    /\ ~det.timedOut
    /\ det.resultChan # <<>>
    /\ Head(det.resultChan) # ShellName
    /\ onceReturns = 2
    /\ detectRuns = 1

-----------------------------------------------------------------------------
(* The fallback to the home directory (SpecMain)                           *)

WarnedFallback ==
    \E i \in 1..Len(stderr) : stderr[i] = "Warning: STARTING_DIR is invalid, falling back"

\* the picker command changes into directory d
RootedAt(d) == cmd # NoCmd /\ cmd.args[Len(cmd.args)] = fzfCommand(d)

\* getPathViaFZF found the starting directory invalid and the home directory
\* is a valid directory
FellBackHome == gp.fellBack /\ HomeValid

\* C21 as stated: with an invalid starting directory and a valid home
\* directory the picker is invoked, rooted at the home directory, after a
\* warning, and the selection is resolved against the home directory.
C21_AsStated ==
    (FellBackHome /\ pc \in {"getpath_ret", "main_open", "wait_enter", "exited"}) =>
        /\ WarnedFallback
        /\ pickerRuns = 1
        /\ RootedAt(HomeDir)
        /\ gp.selectedPath # "" => HasPrefix(gp.selectedPath, HomeDir \o "/")

\* C21, amended: ... unless the check of the home directory has not answered
\* within 100 ms; then getPathViaFZF returns the timeout error and the picker
\* is not invoked.
C21_FallbackToHome ==
    FellBackHome =>
        /\ WarnedFallback
        /\ cfg.StartingDir = HomeDir
        /\ gp.err \in {"", "timeout checking fallback STARTING_DIR"}
        /\ pc \in {"getpath_ret", "main_open", "wait_enter", "exited"} =>
              IF gp.err = ""
              THEN /\ pickerRuns = 1
                   /\ RootedAt(HomeDir)
                   /\ gp.selectedPath # "" => HasPrefix(gp.selectedPath, HomeDir \o "/")
              ELSE pickerRuns = 0 /\ cmd = NoCmd /\ gp.selectedPath = ""

\* -d named a missing directory, the picker ran in the home directory and
\* the file selected there was opened
C21_Witness ==
    /\ FellBackHome
    /\ cfg.StartingDir = HomeDir
    /\ pickerRuns = 1
    /\ gp.selectedPath = HomeDir \o "/README"
    /\ pc = "exited"
    /\ procs # <<>>

-----------------------------------------------------------------------------
(* The fast path of detectUserShell (SpecShell)                            *)

\* $SHELL is set and its base name is a valid shell
FastPathApplies == env.shellVar # "" /\ Base(env.shellVar) \in validShells

\* detectUserShell has returned
DetectReturned == det.pc \in {"ret", "over"}

\* C22: when the base name of $SHELL is in validShells, detectUserShell sets
\* ShellToUse to that base name and returns without starting a candidate
\* lookup goroutine.
C22_FastPath ==
    FastPathApplies =>
        /\ \A sh \in Candidates : det.cand[sh] = "unstarted"
        /\ det.resultChan = <<>> /\ det.doneCloses = 0 /\ ~warned
        /\ ShellName \in {"", Base(env.shellVar)}
        /\ DetectReturned => ShellName = Base(env.shellVar)

\* $SHELL is /usr/bin/fish while zsh and bash are installed: detection has
\* returned with fish
C22_Witness ==
    /\ FastPathApplies
    /\ DetectReturned
    /\ ShellName = "fish"
    /\ {"zsh", "bash"} \subseteq env.installed
    /\ shellOnce = "done"

-----------------------------------------------------------------------------
(* The race of the candidates (SpecShell)                                  *)

\* the place of a candidate in possibleShells: a lower number is a higher
\* priority
Rank(sh) == CHOOSE i \in 1..Len(possibleShells) : possibleShells[i] = sh

\* detectUserShell takes a result from resultChan
TakesResult == det.pc = "select" /\ det'.pc = "store" /\ ~det'.timedOut

\* C23: when the fast path does not apply the detected shell is the
\* candidate whose success is delivered first: the one result the channel
\* holds when detectUserShell receives is the shell it stores, whatever
\* the candidate's place in the list, so a lower-priority candidate can win
\* over a resolvable higher-priority one.
C23_FirstDeliveredWins ==
    /\ [][TakesResult =>
            /\ Len(det.resultChan) = 1
            /\ det'.chosen = Head(det.resultChan)]_vars
    /\ []((~FastPathApplies /\ DetectReturned /\ ~det.timedOut) =>
            /\ ShellName = det.chosen
            /\ ShellName \in Candidates /\ LookPath(ShellName) # "")

\* every candidate is installed and the one of lowest priority was detected
C23_Witness ==
    /\ ~FastPathApplies
    /\ env.installed = Candidates
    /\ DetectReturned
    /\ ~det.timedOut
    /\ Rank(ShellName) = Len(possibleShells)

-----------------------------------------------------------------------------
(* The end of the pre-warm sweep (SpecCacheFair)                           *)

\* the goroutines of the sweep are scheduled as long as they can step:
\* exec.LookPath returns, and a send on the buffered resultChan, wg.Wait
\* after the last Done and a receive from a non-empty or closed channel do
\* not block
SpecCacheFair == SpecCache /\ WF_vars(Prewarm)

\* pathCacheOnce.Do has returned
SweepOver == pw.collector = "done"

\* pathCache holds exactly the successful searches of the sweep's commands
SweepStored ==
    \A c \in PrewarmCommands :
        IF LookPath(c) = "" THEN c \notin DOMAIN pathCache
        ELSE c \in DOMAIN pathCache /\ pathCache[c] = LookPath(c)

\* C24: the pre-warm sweep terminates: every lookup goroutine finishes, the
\* channel is closed after all of them and the collector's loop ends; from
\* then on pathCache holds an entry for every command of the sweep whose
\* search succeeded and none for a command whose search failed.
C24_SweepTerminates ==
    /\ <>(pw = PWOver)
    /\ [](SweepOver => pw = PWOver /\ SweepStored)

\* the sweep is over, one search of it succeeded and one failed
C24_Witness ==
    /\ SweepOver
    /\ env.installed = {"sh"}
    /\ "sh" \in DOMAIN pathCache
    /\ "xdg-mime" \notin DOMAIN pathCache

-----------------------------------------------------------------------------
(* close(done) in detectUserShell (SpecShell)                              *)

\* C25: the done channel of detectUserShell is closed at most once, so no
\* candidate closes a closed channel and the race never panics, also when
\* a second candidate succeeds after the caller received the first result.
C25_AsStated == det.doneCloses <= 1 /\ ~panicked

-----------------------------------------------------------------------------
(* The directory branch of openFileWithConfiguredApp (SpecOpen)            *)

\* the call is on a directory: os.Stat succeeded and IsDir() is true
OnDirectory == StatOk(op.filePath) /\ op.filePath \in env.dirs

\* the applications started so far with the call's path as last argument
StartedFor(filePath) ==
    {i \in 1..Len(procs) : procs[i].args[Len(procs[i].args)] = filePath}

\* C26: for a directory the call starts at most one application: the
\* fallback opener is started only when the launch of the text editor
\* failed, and the error is returned only when neither was started, in
\* every interleaving of the launch goroutine and the 200 ms timeout.
C26_AsStated ==
    OnDirectory =>
        /\ Cardinality(StartedFor(op.filePath)) <= 1
        /\ (op.pc = "ret" /\ op.err # "") => StartedFor(op.filePath) = {}

-----------------------------------------------------------------------------
(* The shell of the picker without a terminal (SpecMain)                   *)

\* the picker's command was built by the branch without a terminal, with
\* the interactive shell asked for
BuiltDirect == cmd # NoCmd /\ cfg.UseShellIC /\ ~cfg.SpawnTerm

\* C27: getPathViaFZF does not use ShellToUse before the detection has
\* completed: with the interactive shell on and no terminal, the picker runs
\* under the shell the detector chooses (when that is not sh), whatever the
\* interleaving with the detection started by init(). Here $SHELL names a
\* valid shell, so the detector's choice is its base name.
C27_AsStated ==
    /\ ~panicked
    /\ (BuiltDirect /\ Base(env.shellVar) # "sh") => cmd.name = Base(env.shellVar)

-----------------------------------------------------------------------------
(* SpecTasks: one run of the program with every background goroutine of    *)
(* it: the pre-warm sweep, the candidates of detectUserShell, the search   *)
(* goroutines of cachedLookPath, the check of the fallback directory and   *)
(* the launch goroutine of the directory branch.                           *)

\* a machine with every program and directory of SpecMain
TasksMachine ==
    MainEnv({"/home/u", "/home/u/sub", "/data", "/data/sub"},
            MainPrograms \cup {"bash", "sh"}, TRUE)

\* the run in which main meets every consumer: $SHELL names a valid shell,
\* and the fallback opener is not installed
MainEnvTasks == [TasksMachine EXCEPT !.installed = @ \ {"xdg-open"}]

\* the run in which the detection races its candidates: $SHELL is unset,
\* and the user selects nothing in the picker
RaceEnvTasks == [TasksMachine EXCEPT !.shellVar = "", !.picks = {"  \n"}]

\* pathCache as the sweep leaves it
SweptCache ==
    [c \in {x \in PrewarmCommands : LookPath(x) # ""} |-> LookPath(c)]

SweptWrites ==
    [k \in {<<"path", c>> : c \in DOMAIN SweptCache} |-> 1]

\* the flags of the run with the race: a terminal with and without the
\* interactive shell, and no terminal
RaceCfgs ==
    {[Terminal |-> defaultConfig.Terminal, StartingDir |-> "/data",
      SpawnTerm |-> f[1], UseShellIC |-> f[2], NoAutoClose |-> f[3]] :
        f \in {<<TRUE, TRUE, TRUE>>, <<TRUE, FALSE, FALSE>>, <<FALSE, TRUE, FALSE>>}}

\* main starts while the sweep of init() is under way, or after its end
InitTasks ==
    /\ \/ /\ env = MainEnvTasks
          /\ pw = PWStart
          /\ pathCache = EmptyCache
          /\ cacheWrites = NoWrites
          /\ cfg \in [Terminal : {defaultConfig.Terminal},
                      StartingDir : {"/data", "$PROJ"}, SpawnTerm : {FALSE},
                      NoAutoClose : {FALSE}, UseShellIC : {TRUE}]
       \/ /\ env = RaceEnvTasks
          /\ pw = PWOver
          /\ pathCache = SweptCache
          /\ cacheWrites = SweptWrites
          /\ cfg \in RaceCfgs
    /\ pc = "main"
    /\ cs = {}
    /\ peer = PeerIdle
    /\ mimeCache = EmptyCache
    /\ clp = [t \in Threads |-> CLPIdle]
    /\ gmt = [t \in Threads |-> GMIdle]
    /\ orphans = 0
    /\ callLog = <<>>
    /\ ShellInit
    /\ OpenInit
    /\ cmd = NoCmd
    /\ userHomeDir = env.homeDir
    /\ gp = GPIdle
    /\ fallbackValid = NoFallbackCheck
    /\ tmpFile = NoTmpFile
    /\ pickerRuns = 0
    /\ stderr = <<>>
    /\ exitCode = -1

\* the goroutine of line 569: launchApp and the cachedLookPath inside it,
\* then the send on success
DirTaskStep ==
    \/ launchApp("task")
    \/ CLPRead("task") \/ CLPSpawn("task")
    \/ CLPRecvResult("task") \/ CLPRecvErr("task") \/ CLPTimeout("task")
    \/ OpenDirTaskSend

\* the goroutines of detectUserShell's loop
CandidateStep ==
    \E sh \in Candidates :
        CandCheck(sh) \/ CandLookup(sh) \/ CandSend(sh) \/ CandClose(sh)

\* the lookup goroutines of the sweep and the goroutine that closes
SweepStep ==
    \/ \E c \in PrewarmCommands : PrewarmLookup(c)
    \/ PrewarmClose

\* the search goroutines of cachedLookPath, awaited or abandoned
SearchStep ==
    \/ \E t \in Threads : CLPWorker(t)
    \/ OrphanFinish

\* a step of a background goroutine
TaskStep ==
    \/ SweepStep
    \/ CandidateStep
    \/ SearchStep
    \/ FallbackCheck
    \/ DirTaskStep

\* a step of main, or of a goroutine that consumes what the tasks send
ConsumerStep ==
    \/ MainExpand
    \/ GetPathStat
    \/ FallbackRecv
    \/ FallbackTimeout
    \/ BuildPickerCommand
    \/ \E outcome \in PickerOutcomes :
          \E tmp \in TmpAfter(outcome) : PickerRun(outcome, tmp)
    \/ ReadTmp
    \/ MainGotPath
    \/ MainOpened
    \/ MainEnter
    \/ BgOnceDo
    \/ BgOnceReturn
    \/ DetectEnv
    \/ DetectRecv
    \/ DetectTimeout
    \/ DetectStore
    \/ PrewarmCollect
    \/ PrewarmEnd
    \/ OpenStat \/ OpenExtMime \/ OpenMimeFallback \/ OpenMimeQueried
    \/ OpenLaunch \/ OpenLaunched \/ OpenFallbackDone
    \/ OpenDirRecv \/ OpenDirTimeout
    \/ launchApp("main")
    \/ GMRead("main") \/ GMLookup("main") \/ GMResolved("main")
    \/ GMRunOk("main") \/ GMRunFail("main")
    \/ CLPRead("main") \/ CLPSpawn("main")
    \/ CLPRecvResult("main") \/ CLPRecvErr("main") \/ CLPTimeout("main")

NextTasks == TaskStep \/ ConsumerStep

\* a goroutine that can step does step: the external call it waits for
\* returns and the scheduler runs it. Nothing is assumed of the consumers.
SpecTasks == InitTasks /\ [][NextTasks]_vars /\ WF_vars(TaskStep)

\* no background goroutine is left
TasksOver ==
    /\ \A c \in PrewarmCommands : pw.workers[c] = "done"
    /\ pw.closed
    /\ \A sh \in Candidates : det.cand[sh] \in {"unstarted", "end"}
    /\ \A t \in Threads : clp[t].worker # "running"
    /\ orphans = 0
    /\ fallbackValid.task # "stat"
    /\ op.task # "launching"

\* no channel holds more than its capacity, so no send has had to wait
ChannelsFit ==
    /\ Len(pw.resultChan) <= Cardinality(PrewarmCommands)
    /\ Len(det.resultChan) <= 1
    /\ \A t \in Threads : Len(clp[t].resultChan) <= 1 /\ Len(clp[t].errChan) <= 1
    /\ Len(fallbackValid.chan) <= 1
    /\ Len(op.success) <= 2

\* the process has ended, by its exit or by a panic
ProcessEnded == ~Running \/ panicked

\* C28: every background goroutine ends once its external call has
\* returned, whether or not its consumer timed out or ever receives: no
\* send of a task has to wait, since no channel is ever filled beyond its
\* capacity, and from some point on no task is left.
C28_TasksTerminate ==
    /\ []ChannelsFit
    /\ <>[](TasksOver \/ ProcessEnded)

\* every task has ended in a live process although the consumer of the
\* directory launch had timed out: the result lies unread in its channel
C28_Witness ==
    /\ TasksOver
    /\ ~ProcessEnded
    /\ op.pc = "ret"
    /\ op.task = "done"
    /\ op.success # <<>>

-----------------------------------------------------------------------------
(* SpecTwo: two instances of the program on one machine. The first is the  *)
(* process modelled so far, from the building of the picker's command on;  *)
(* the second runs the same lines 397-466 on the same file /tmp/fzf-open.  *)

\* what the user selects in the picker of the first and of the second
\* instance
OwnPick == "README\n"
PeerPick == "a.bin\n"

\* the shell of the second instance opens `> '/tmp/fzf-open'`: the file is
\* created or truncated before its picker runs
PeerRedirect ==
    /\ peer.pc = "start"
    /\ tmpFile' = [exists |-> TRUE, content |-> ""]
    /\ peer' = [peer EXCEPT !.pc = "picking"]
    /\ UNCHANGED <<env, cs, cacheWrites, pc, cacheVars, shellVars, openVars, cfg, cmd,
                   userHomeDir, gp, fallbackValid, pickerRuns, stderr, exitCode>>

\* the picker of the second instance writes the selection, and cmd.Run()
\* returns
PeerPickerRun ==
    /\ peer.pc = "picking"
    /\ tmpFile' = [exists |-> TRUE, content |-> PeerPick]
    /\ peer' = [peer EXCEPT !.pc = "read_tmp", !.picked = PeerPick]
    /\ UNCHANGED <<env, cs, cacheWrites, pc, cacheVars, shellVars, openVars, cfg, cmd,
                   userHomeDir, gp, fallbackValid, pickerRuns, stderr, exitCode>>

\* content, err := os.ReadFile(tmpFzfOutput) in the second instance
PeerReadFile ==
    /\ peer.pc = "read_tmp"
    /\ peer' = [peer EXCEPT !.pc = "remove", !.read = tmpFile]
    /\ UNCHANGED <<env, cs, cacheWrites, pc, cacheVars, shellVars, openVars, cfg, cmd,
                   userHomeDir, gp, fallbackValid, tmpFile, pickerRuns, stderr,
                   exitCode>>

\* if _, statErr := os.Stat(tmpFzfOutput); statErr == nil { os.Remove(...) }
PeerRemove ==
    /\ peer.pc = "remove"
    /\ tmpFile' = NoTmpFile
    /\ peer' = [peer EXCEPT !.pc = "done"]
    /\ UNCHANGED <<env, cs, cacheWrites, pc, cacheVars, shellVars, openVars, cfg, cmd,
                   userHomeDir, gp, fallbackValid, pickerRuns, stderr, exitCode>>

PeerStep ==
    \/ PeerRedirect
    \/ PeerPickerRun
    \/ PeerReadFile
    \/ PeerRemove

InitTwo ==
    /\ env = [MainEnv({"/home/u", "/home/u/sub", "/data", "/data/sub"},
                      MainPrograms, TRUE) EXCEPT !.picks = {OwnPick}]
    /\ pc = "fzf_cmd"
    /\ peer = [PeerIdle EXCEPT !.pc = "start"]
    /\ pathCache = EmptyCache
    /\ cacheWrites = NoWrites
    /\ cs = {}
    /\ mimeCache = EmptyCache
    /\ clp = [t \in Threads |-> CLPIdle]
    /\ gmt = [t \in Threads |-> GMIdle]
    /\ orphans = 0
    /\ pw = PWOver
    /\ callLog = <<>>
    /\ ShellInit
    /\ OpenInit
    /\ cfg \in [Terminal : {defaultConfig.Terminal}, StartingDir : {"/data", "/home/u"},
                SpawnTerm : {FALSE}, NoAutoClose : BOOLEAN, UseShellIC : {FALSE}]
    /\ cmd = NoCmd
    /\ userHomeDir = env.homeDir
    /\ gp = GPIdle
    /\ fallbackValid = NoFallbackCheck
    /\ tmpFile = NoTmpFile
    /\ pickerRuns = 0
    /\ stderr = <<>>
    /\ exitCode = -1

NextTwo ==
    \/ FzfDirect
    \/ \E outcome \in PickerOutcomes :
          \E tmp \in TmpAfter(outcome) : PickerRun(outcome, tmp)
    \/ ReadTmp
    \/ MainGotPath
    \/ MainEnter
    \/ PeerStep

SpecTwo == InitTwo /\ [][NextTwo]_vars

\* the second instance has read the file
PeerHasRead == peer.pc \in {"remove", "done"}

\* C29: with two instances running, each opens only a path chosen in its own
\* picker: what an instance reads from /tmp/fzf-open is what its own picker
\* wrote, and the removal of the file by one instance does not make the
\* other find nothing selected.
C29_AsStated ==
    /\ PeerHasRead => peer.read = [exists |-> TRUE, content |-> peer.picked]
    /\ gp.selectedPath # "" =>
          gp.selectedPath = Join(cfg.StartingDir, TrimSpace(OwnPick))

-----------------------------------------------------------------------------
(* The MIME queries of one call (SpecOpen)                                 *)

\* the call went through the query of line 617: its file has no extension
QueriedForExt == OnRegularFile /\ op.Ext = "" /\ op.pc \in {"mime_fallback", "mime_query", "launch", "fallback", "ret"}

\* C30: one call of openFileWithConfiguredApp queries getMimeType at most
\* once: the query for the empty extension and the query of the MIME
\* fallback never both run, whatever the extension and whatever the tool
\* answers, the empty answer included.
C30_OneMimeQuery ==
    /\ op.mimeQueries <= 1
    /\ (QueriedForExt /\ op.mimeQueries = 1) => op.pc # "mime_query"

\* a file without extension whose type the tool could not tell: queried
\* once, opened with the text editor
C30_Witness ==
    /\ op.pc = "ret"
    /\ op.Ext = ""
    /\ OnRegularFile
    /\ op.MIMEType = ""
    /\ op.mimeQueries = 1
    /\ op.appToLaunch = appAssociations.TextEditor

====
